---- MODULE Spec2Model ----
(***************************************************************************)
(* A model of the Message Routing & Permission Gate of A2A-Instabids:      *)
(* MessagingAgent.handle_message and MessagingAgent._should_allow_message  *)
(* (src/src/agents/messaging/agent.py), together with the bids table the   *)
(* gate reads and the transport it forwards through.                       *)
(*                                                                         *)
(* Agent identifiers are Python strings; they are modelled as sequences of *)
(* one-character strings so that the substring test of the role heuristic  *)
(* and the upper()/replace() of the endpoint lookup are computed as the    *)
(* code computes them.  A coroutine is split at the awaits where it really *)
(* suspends (the bid query and the transport send); pc is its position.    *)
(***************************************************************************)
EXTENDS Naturals, Sequences, FiniteSets

\* ------------------------------------------------------------------ bounds

\* Rows the bids table may hold.
MaxBids == 2

\* The most calls of the singleton factory in a run.
MaxCalls == 3

\* The most agents get_user_agent constructs in a run.
MaxAgents == 2

\* ------------------------------------------------------- values and strings

\* Python's None.
NONE == "None"

\* The literal "contractor-agent" of the role heuristic.
CONTRACTOR_AGENT == <<"c", "o", "n", "t", "r", "a", "c", "t", "o", "r", "-", "a", "g", "e", "n", "t">>

\* The literal "homeowner-agent" of the identifiers the factory builds.
HOMEOWNER_AGENT == <<"h", "o", "m", "e", "o", "w", "n", "e", "r", "-", "a", "g", "e", "n", "t">>

\* "contractor-agent-001", the ContractorAgent's AGENT_ID.
CONTRACTOR_AGENT_001 == CONTRACTOR_AGENT \o <<"-", "0", "0", "1">>

\* "contractor-agent-002", a second contractor's agent.
CONTRACTOR_AGENT_002 == CONTRACTOR_AGENT \o <<"-", "0", "0", "2">>

\* "homeowner-agent-001", the HomeownerAgent's AGENT_ID.
HOMEOWNER_AGENT_001 == HOMEOWNER_AGENT \o <<"-", "0", "0", "1">>

\* "messaging-agent-001", the MessagingAgent's own AGENT_ID: neither a
\* homeowner's nor a contractor's identifier.
AGENT_ID == <<"m", "e", "s", "s", "a", "g", "i", "n", "g", "-", "a", "g", "e", "n", "t", "-", "0", "0", "1">>

\* The empty string.
EMPTY == << >>

\* A contractor's user id, the UUID of the 'users' table (its beginning:
\* more than the eight characters the broadcast keeps of it).
CONTRACTOR_USER_ID == <<"a", "b", "1", "2", "c", "d", "3", "4", "-", "e">>

LOWERCASE == <<"a", "b", "c", "d", "e", "f", "g", "h", "i", "j", "k", "l", "m", "n", "o", "p", "q", "r", "s", "t", "u", "v", "w", "x", "y", "z">>

UPPERCASE == <<"A", "B", "C", "D", "E", "F", "G", "H", "I", "J", "K", "L", "M", "N", "O", "P", "Q", "R", "S", "T", "U", "V", "W", "X", "Y", "Z">>

\* str.upper() of one character.
UpperChar(c) ==
    IF \E i \in 1..Len(LOWERCASE) : LOWERCASE[i] = c
    THEN UPPERCASE[CHOOSE i \in 1..Len(LOWERCASE) : LOWERCASE[i] = c]
    ELSE c

\* s.upper()
Upper(s) == [i \in 1..Len(s) |-> UpperChar(s[i])]

\* str.lower() of one character.
LowerChar(c) ==
    IF \E i \in 1..Len(UPPERCASE) : UPPERCASE[i] = c
    THEN LOWERCASE[CHOOSE i \in 1..Len(UPPERCASE) : UPPERCASE[i] = c]
    ELSE c

\* s.lower()
Lower(s) == [i \in 1..Len(s) |-> LowerChar(s[i])]

\* s.replace('-', '_')
ReplaceHyphen(s) == [i \in 1..Len(s) |-> IF s[i] = "-" THEN "_" ELSE s[i]]

\* Python's `sub in s` for strings.
Contains(sub, s) ==
    \E i \in 1..(Len(s) + 1) :
        /\ i + Len(sub) - 1 <= Len(s)
        /\ SubSeq(s, i, i + Len(sub) - 1) = sub

\* Python truthiness of an Optional[str] kept as a plain string (project
\* ids, on which the code does no string operation): None and "" are falsy.
Truthy(x) == x # NONE /\ x # ""

\* Python truthiness of an agent identifier (a character sequence).
TruthyId(s) == Len(s) > 0

\* ------------------------------------------------------------ input domains

\* Agent identifiers messages are exchanged between.
AgentIds ==
    {HOMEOWNER_AGENT_001, CONTRACTOR_AGENT_001, CONTRACTOR_AGENT_002, AGENT_ID, EMPTY}

\* Contractor identifiers found in the bids table: ContractorAgent submits
\* its bids under its own agent identifier; the column is meant to hold the
\* contractor's user id.
ContractorIds == {CONTRACTOR_AGENT_001, CONTRACTOR_USER_ID}

\* Projects that have bid records.
BidProjectIds == {"P1"}

\* Bid.status
BidStatuses == {"pending", "accepted", "rejected", "withdrawn"}

\* Message.metadata: None, a dict without "project_id", or a dict with it.
NoMetadata == [is_none |-> TRUE]

Metadatas ==
    {NoMetadata, [broadcast |-> FALSE]}
        \cup {[project_id |-> p] : p \in {"", "P1", "P2"}}

\* Message.content: free text, as a sequence of words.
Contents == {<<"hello">>, <<"call", "me", "at", "555-1234">>}

\* An inbound Message.
Messages ==
    [sender_agent_id : AgentIds, recipient_agent_id : AgentIds,
     metadata : Metadatas, content : Contents,
     task_id : {"T1"}, role : {"USER"}, session_id : {"S1"},
     artifacts : {<< >>}]

\* The value of `message` while no message has been received.
NoMessage == [is_none |-> TRUE]

\* The value of `task` while no task has been received.
NoTask == [is_none |-> TRUE]

\* The value of `returned` while handle_create_task has not returned.
NotReturned == [pending |-> TRUE]

\* The None that handle_create_task returns.
ReturnsNone == [is_none |-> TRUE]

\* The `call` of a recipient for whom send_message was not called.
NoCall == [is_none |-> TRUE]

\* The None in the place of an agent.
NoAgent == [is_none |-> TRUE]

\* The reference to the n-th agent constructed.
ref(n) == [agent |-> n]

\* An asyncio.Lock nobody holds or waits for.
Unlocked == [holder |-> NONE, waiters |-> << >>]

\* The tasks that call get_user_agent concurrently.
Callers == {"t1", "t2"}

\* A task that is not calling get_user_agent and holds no agent.
NotCalling == [pc |-> "idle"]

\* No call of ContractorAgent.submit_bid in progress.
NoBidCall == [pc |-> "idle"]

\* str(recipient_user_id)[:8]
FirstEight(s) == IF Len(s) <= 8 THEN s ELSE SubSeq(s, 1, 8)

\* recipient_agent_id = f"contractor-agent-{str(recipient_user_id)[:8]}"
broadcast_agent_id(recipient_user_id) ==
    CONTRACTOR_AGENT \o <<"-">> \o FirstEight(recipient_user_id)

\* Names of the environment variables that may hold an endpoint: that of
\* "messaging-agent-001" and that of "contractor-agent-contract".
EnvVarNames ==
    {Upper(ReplaceHyphen(a)) \o <<"_", "E", "N", "D", "P", "O", "I", "N", "T">> :
        a \in {AGENT_ID, broadcast_agent_id(CONTRACTOR_AGENT_001)}}

\* The name of the variable of "contractor-agent-ab12cd34".
UserEnvVarName ==
    Upper(ReplaceHyphen(broadcast_agent_id(CONTRACTOR_USER_ID)))
        \o <<"_", "E", "N", "D", "P", "O", "I", "N", "T">>

\* The environments the agent is started in: no endpoint variable set, those
\* of EnvVarNames set, or UserEnvVarName set as well.
Environs == {{}, EnvVarNames, EnvVarNames \cup {UserEnvVarName}}

\* The metadata of the tasks: None, a task that is no broadcast, and
\* broadcasts whose project_id or content may be missing.
TaskMetadatas ==
    {NoMetadata, [action |-> "notify"]}
        \cup [action : {"broadcast"},
              project_id : {"", "P1", "P2"},
              content : {EMPTY, <<"site", "visit", "on", "Monday">>}]

\* The tasks handle_create_task is given.
Tasks ==
    [creator_agent_id : {HOMEOWNER_AGENT_001, CONTRACTOR_AGENT_001, EMPTY},
     metadata : TaskMetadatas]

\* The ids of the tasks the homeowner agent is given.
TaskIds == {"T1", "T2"}

\* Task.description: a text that asks for a quote upload, and one that does not.
Descriptions ==
    {<<"n", "e", "w", " ", "d", "e", "c", "k">>,
     <<"U", "p", "l", "o", "a", "d", " ", "Q", "u", "o", "t", "e">>}

\* Task.artifacts, by the type of each artifact.
ArtifactLists == {<< >>, <<"IMAGE">>, <<"FILE">>, <<"FILE", "IMAGE">>}

\* Task.metadata of the homeowner's tasks: None, or a dict with the user id.
HomeownerMetadatas == {NoMetadata, [homeowner_user_id |-> "H1"]}

\* The tasks HomeownerAgent.handle_create_task is given.
HomeownerTasks ==
    [id : TaskIds, description : Descriptions, artifacts : ArtifactLists,
     metadata : HomeownerMetadatas, creator_agent_id : {HOMEOWNER_AGENT_001},
     status : {"PENDING"}]

\* The messages HomeownerAgent.handle_message is given.
HomeownerMessages ==
    [task_id : TaskIds, sender_agent_id : {HOMEOWNER_AGENT_001},
     content : {<<"hello">>}]

\* final_data of _finalize_project_creation: None, or a dict with the keys
\* `keys`; homeowner_id is the value at "homeowner_id" when that is a key.
FinalData(is_none, keys, homeowner_id) ==
    [is_none |-> is_none, keys |-> keys, homeowner_id |-> homeowner_id]

FinalDatas ==
    {FinalData(TRUE, {}, NONE),
     FinalData(FALSE, {}, NONE),
     FinalData(FALSE, {"title"}, NONE),
     FinalData(FALSE, {"title", "homeowner_id"}, NONE),
     FinalData(FALSE, {"title", "homeowner_id"}, ""),
     FinalData(FALSE, {"title", "homeowner_id"}, "H1")}

\* The value of the homeowner agent's call record while it runs nothing.
NoHomeownerCall == [pc |-> "idle"]

\* A row of the tasks table that does not exist.
NoRow == [status |-> "absent", error_message |-> NONE]

\* ------------------------------------------------------------------- state

VARIABLES
    db,        \* self.db: the Supabase client, or None
    environ,   \* os.environ: the endpoint variables that are set
    bids,      \* the rows of the "bids" table
    pc,        \* position of the handle_message coroutine
    message,   \* the message being handled
    queried,   \* whether the bid query was issued for this message
    query_raised, \* whether `await query.execute()` raised
    verdict,   \* the local (allowed, reason)
    sends,     \* calls of a2a_client.send_message made for the message in hand
    outcome,   \* how the handling of the message in hand ended
    contacts,  \* the message history: (project, sender, recipient) delivered
    bpc,       \* position of the handle_create_task coroutine
    task,      \* the task being handled
    recipients, \* the local recipient_user_ids of _handle_broadcast
    fanout,    \* what _handle_broadcast did for each recipient visited so far
    boutcome,  \* how the handling of the task in hand ended
    returned,  \* what handle_create_task returned to its caller
    _agent_cache,          \* factory.py: cache_key -> the live agent cached
    _agent_creation_locks, \* factory.py: cache_key -> its asyncio.Lock
    callers,   \* the tasks calling get_user_agent: position, arguments, result
    agents,    \* the agents get_user_agent constructed, in order
    _homeowner,  \* instabids/agents/factory.py: the global _homeowner
    _contractor, \* instabids/agents/factory.py: the global _contractor
    adk_agents,  \* the Agents the singleton factory constructed, in order
    factory_calls, \* the calls of the singleton factory and what they returned
    bid_call,  \* the call of ContractorAgent.submit_bid in progress
    hcall,     \* the coroutine HomeownerAgent runs: position and locals
    tasks_table,    \* the rows of the "tasks" table, by a2a_task_id
    logged_status,  \* the status _update_task_status last logged, by task id
    _active_flow_sessions, \* HomeownerAgent._active_flow_sessions
    prompts    \* calls of a2a_client.send_message made by HomeownerAgent

\* The variables of the unit of work handle_message runs.
msg_vars == <<pc, message, queried, query_raised, verdict, sends, outcome>>

\* The variables of the unit of work handle_create_task runs.
task_vars == <<bpc, task, recipients, fanout, boutcome, returned>>

\* The module state of agents/factory.py and the tasks calling it.
factory_vars == <<_agent_cache, _agent_creation_locks, callers, agents>>

\* The module state of instabids/agents/factory.py and its calls.
singleton_vars == <<_homeowner, _contractor, adk_agents, factory_calls>>

\* The state of HomeownerAgent and of the tasks table it writes.
homeowner_vars ==
    <<hcall, tasks_table, logged_status, _active_flow_sessions, prompts>>

\* What the messaging agent neither reads nor writes.
other_vars == <<factory_vars, singleton_vars, bid_call, homeowner_vars>>

\* What the factories and ContractorAgent.submit_bid leave alone, the bids
\* table apart.
gate_vars == <<db, environ, msg_vars, contacts, task_vars, homeowner_vars>>

\* What HomeownerAgent neither reads nor writes, the client apart.
not_homeowner_vars ==
    <<environ, bids, msg_vars, contacts, task_vars, factory_vars,
      singleton_vars, bid_call>>

vars == <<db, environ, bids, msg_vars, contacts, task_vars, other_vars>>

\* (allowed, reason) before _should_allow_message returned.
NoVerdict == [allowed |-> FALSE, reason |-> NONE]

\* ------------------------------------------------- _should_allow_message

\* A verdict, the (allowed, reason) tuple _should_allow_message returns.
Verdict(allowed, reason) == [allowed |-> allowed, reason |-> reason]

\* project_id = message.metadata.get("project_id") if message.metadata else None
\* (a dict is falsy only when empty; both dicts of the model are non-empty).
project_id_of(m) ==
    IF m.metadata = NoMetadata THEN NONE
    ELSE IF "project_id" \in DOMAIN m.metadata THEN m.metadata.project_id
    ELSE NONE

\* sender_is_contractor / recipient_is_contractor: the placeholder role test.
is_contractor(agent_id) == Contains(CONTRACTOR_AGENT, agent_id)

\* map_roles with the first branch taken on the sender's role alone
\* (`if sender_is_contractor:`): the fault C2 is checked against.
map_roles_sender_only(sender_id, recipient_id) ==
    LET sender_is_contractor == is_contractor(sender_id)
        recipient_is_contractor == is_contractor(recipient_id)
    IN  IF sender_is_contractor
        THEN [blocked |-> NONE,
              homeowner_agent_id |-> recipient_id,
              contractor_agent_id |-> sender_id,
              contractor_user_id |-> sender_id]
        ELSE IF ~sender_is_contractor /\ recipient_is_contractor
        THEN [blocked |-> NONE,
              homeowner_agent_id |-> sender_id,
              contractor_agent_id |-> recipient_id,
              contractor_user_id |-> recipient_id]
        ELSE [blocked |-> "Blocked: Homeowner-to-homeowner messaging not supported",
              homeowner_agent_id |-> EMPTY,
              contractor_agent_id |-> EMPTY,
              contractor_user_id |-> EMPTY]

\* Lines 185-210: the roles of the two parties and the identifiers mapped
\* from them, or the reason the same-role branches return with.  `blocked`
\* is None when the branch does not return; an identifier left None by the
\* code is the empty (falsy) identifier here.
map_roles(sender_id, recipient_id) ==
    LET sender_is_contractor == is_contractor(sender_id)
        recipient_is_contractor == is_contractor(recipient_id)
    IN  IF sender_is_contractor /\ ~recipient_is_contractor
        THEN [blocked |-> NONE,
              homeowner_agent_id |-> recipient_id,
              contractor_agent_id |-> sender_id,
              \* contractor_user_id = contractor_agent_id # TEMPORARY WRONG MAPPING
              contractor_user_id |-> sender_id]
        ELSE IF ~sender_is_contractor /\ recipient_is_contractor
        THEN [blocked |-> NONE,
              homeowner_agent_id |-> sender_id,
              contractor_agent_id |-> recipient_id,
              contractor_user_id |-> recipient_id]
        ELSE IF sender_is_contractor /\ recipient_is_contractor
        THEN [blocked |-> "Blocked: Contractor-to-contractor messaging not supported",
              homeowner_agent_id |-> EMPTY,
              contractor_agent_id |-> EMPTY,
              contractor_user_id |-> EMPTY]
        ELSE [blocked |-> "Blocked: Homeowner-to-homeowner messaging not supported",
              homeowner_agent_id |-> EMPTY,
              contractor_agent_id |-> EMPTY,
              contractor_user_id |-> EMPTY]

\* What the part of _should_allow_message before the query yields when it
\* returns a deny verdict.
entry_return(reason) ==
    [returned |-> TRUE, verdict |-> Verdict(FALSE, reason),
     contractor_user_id |-> EMPTY]

\* should_allow_message_entry with the role branches tried before the
\* project context: the fault C8 is checked against.
should_allow_message_entry_roles_first(project_id, sender_id, recipient_id) ==
    LET r == map_roles(sender_id, recipient_id)
    IN  IF db = NONE
        THEN entry_return("Blocked: Database connection unavailable")
        ELSE IF r.blocked # NONE
        THEN entry_return(r.blocked)
        ELSE IF ~Truthy(project_id)
        THEN entry_return("Blocked: Missing project context")
        ELSE IF ~TruthyId(r.homeowner_agent_id) \/ ~TruthyId(r.contractor_user_id)
        THEN entry_return("Blocked: Could not identify homeowner/contractor roles or map AgentID to UserID")
        ELSE [returned |-> FALSE, verdict |-> NoVerdict,
              contractor_user_id |-> r.contractor_user_id]

\* The part of _should_allow_message before the bid query.  It either
\* returns a verdict (returned = TRUE) or goes on to the query with the
\* contractor identifier it mapped.
should_allow_message_entry(project_id, sender_id, recipient_id) ==
    LET r == map_roles(sender_id, recipient_id)
    IN  IF ~Truthy(project_id)
        THEN entry_return("Blocked: Missing project context")
        ELSE IF db = NONE
        THEN entry_return("Blocked: Database connection unavailable")
        ELSE IF r.blocked # NONE
        THEN entry_return(r.blocked)
        ELSE IF ~TruthyId(r.homeowner_agent_id) \/ ~TruthyId(r.contractor_user_id)
        THEN entry_return("Blocked: Could not identify homeowner/contractor roles or map AgentID to UserID")
        ELSE [returned |-> FALSE, verdict |-> NoVerdict,
              contractor_user_id |-> r.contractor_user_id]

\* self.db.table("bids").select("status").eq("project_id", ..)
\*     .eq("contractor_id", ..).execute().data
\* select_bid_status without `.eq("contractor_id", contractor_user_id)`: the
\* fault C13 is checked against.
select_bid_status_project_only(table, project_id, contractor_user_id) ==
    LET Match(row) == row.project_id = project_id
        rows == SelectSeq(table, Match)
    IN  [i \in 1..Len(rows) |-> [status |-> rows[i].status]]

select_bid_status(table, project_id, contractor_user_id) ==
    LET Match(row) == /\ row.project_id = project_id
                      /\ row.contractor_id = contractor_user_id
        rows == SelectSeq(table, Match)
    IN  [i \in 1..Len(rows) |-> [status |-> rows[i].status]]

\* any(bid.get("status") == status for bid in bids)
any_status(bid_list, status) ==
    \E i \in 1..Len(bid_list) : bid_list[i].status = status

\* decide with the pending rule tried before the accepted rule: the fault
\* C3 is checked against.
decide_pending_first(bid_list, sender_is_contractor) ==
    IF any_status(bid_list, "pending")
    THEN Verdict(TRUE, "Allowed: Bid pending (redaction may apply)")
    ELSE IF any_status(bid_list, "accepted")
    THEN Verdict(TRUE, "Allowed: Bid accepted")
    ELSE IF sender_is_contractor /\ bid_list = << >>
    THEN Verdict(TRUE, "Allowed: Initial pre-bid contact")
    ELSE Verdict(FALSE, "Blocked: No accepted/pending bid or prior contact")

\* decide with the pre-bid rule open to either sender: the fault C6 is
\* checked against.
decide_any_sender(bid_list, sender_is_contractor) ==
    IF any_status(bid_list, "accepted")
    THEN Verdict(TRUE, "Allowed: Bid accepted")
    ELSE IF any_status(bid_list, "pending")
    THEN Verdict(TRUE, "Allowed: Bid pending (redaction may apply)")
    ELSE IF bid_list = << >>
    THEN Verdict(TRUE, "Allowed: Initial pre-bid contact")
    ELSE Verdict(FALSE, "Blocked: No accepted/pending bid or prior contact")

\* decide with the pre-bid rule lacking its `if not bids:` test: the fault
\* C7 is checked against.
decide_without_no_bids_test(bid_list, sender_is_contractor) ==
    IF any_status(bid_list, "accepted")
    THEN Verdict(TRUE, "Allowed: Bid accepted")
    ELSE IF any_status(bid_list, "pending")
    THEN Verdict(TRUE, "Allowed: Bid pending (redaction may apply)")
    ELSE IF sender_is_contractor
    THEN Verdict(TRUE, "Allowed: Initial pre-bid contact")
    ELSE Verdict(FALSE, "Blocked: No accepted/pending bid or prior contact")

\* decide with the pending rule open to contractor senders only: the fault
\* C38 is checked against.
decide_pending_contractor_only(bid_list, sender_is_contractor) ==
    IF any_status(bid_list, "accepted")
    THEN Verdict(TRUE, "Allowed: Bid accepted")
    ELSE IF any_status(bid_list, "pending") /\ sender_is_contractor
    THEN Verdict(TRUE, "Allowed: Bid pending (redaction may apply)")
    ELSE IF sender_is_contractor /\ bid_list = << >>
    THEN Verdict(TRUE, "Allowed: Initial pre-bid contact")
    ELSE Verdict(FALSE, "Blocked: No accepted/pending bid or prior contact")

\* Rules 1-3 and the default deny, applied to the bids the query returned.
decide(bid_list, sender_is_contractor) ==
    LET has_accepted_bid == any_status(bid_list, "accepted")
        has_pending_bid == any_status(bid_list, "pending")
        has_prior_contact == FALSE
    IN  IF has_accepted_bid
        THEN Verdict(TRUE, "Allowed: Bid accepted")
        ELSE IF has_pending_bid
        THEN Verdict(TRUE, "Allowed: Bid pending (redaction may apply)")
        ELSE IF sender_is_contractor /\ has_prior_contact
        THEN Verdict(TRUE, "Allowed: Follow-up contact")
        ELSE IF /\ sender_is_contractor /\ ~has_pending_bid
                /\ ~has_prior_contact /\ bid_list = << >>
        THEN Verdict(TRUE, "Allowed: Initial pre-bid contact")
        ELSE Verdict(FALSE, "Blocked: No accepted/pending bid or prior contact")

\* should_allow_message_resume with an except clause that fails open: the
\* fault C9 is checked against.
should_allow_message_resume_fail_open(bid_list, sender_id, raised) ==
    IF raised
    THEN Verdict(TRUE, "Allowed: Error checking permissions")
    ELSE decide(bid_list, is_contractor(sender_id))

\* The part of _should_allow_message after `await query.execute()`: the
\* rules when the query returned, the except clause when it raised.
should_allow_message_resume(bid_list, sender_id, raised) ==
    IF raised
    THEN Verdict(FALSE, "Blocked: Error checking permissions")
    ELSE decide(bid_list, is_contractor(sender_id))

\* -------------------------------------------------- _get_recipient_agent_info

\* The A2aAgentInfo returned for agent_id, or None.
get_recipient_agent_info(agent_id) ==
    LET env_var_name ==
            Upper(ReplaceHyphen(agent_id)) \o <<"_", "E", "N", "D", "P", "O", "I", "N", "T">>
    IN  IF env_var_name \in environ
        THEN [id |-> agent_id, endpoint |-> "os.getenv"]
        ELSE IF agent_id = HOMEOWNER_AGENT_001
        THEN [id |-> agent_id, endpoint |-> "http://localhost:8001"]
        ELSE IF agent_id = CONTRACTOR_AGENT_001
        THEN [id |-> agent_id, endpoint |-> "http://localhost:8003"]
        ELSE [id |-> EMPTY, endpoint |-> NONE]

\* `if recipient_agent_info:`
found(info) == info.endpoint # NONE

\* ----------------------------------------------------------- handle_message

\* modified_content = message.content  # Placeholder
modified_content(m) == m.content

\* send_message_call naming the messaging agent as the sender: the fault
\* C12 is checked against.
send_message_call_as_gate(m, recipient_agent_info) ==
    [target_agent |-> recipient_agent_info,
     task_id |-> m.task_id,
     role |-> m.role,
     content |-> m.content,
     sender_agent_id |-> AGENT_ID,
     session_id |-> m.session_id,
     artifacts |-> m.artifacts,
     metadata |-> m.metadata]

\* The keyword arguments of the a2a_client.send_message call.
send_message_call(m, recipient_agent_info) ==
    [target_agent |-> recipient_agent_info,
     task_id |-> m.task_id,
     role |-> m.role,
     content |-> modified_content(m),
     sender_agent_id |-> m.sender_agent_id,
     session_id |-> m.session_id,
     artifacts |-> m.artifacts,
     metadata |-> m.metadata]

\* forward_or_block without the `if allowed:` test: the fault C1 is checked
\* against.
forward_or_block_always(m, v, calls) ==
    LET recipient_agent_info == get_recipient_agent_info(m.recipient_agent_id)
    IN  IF found(recipient_agent_info)
        THEN /\ sends' = Append(calls, send_message_call(m, recipient_agent_info))
             /\ pc' = "send"
             /\ outcome' = "none"
        ELSE /\ sends' = calls
             /\ pc' = "done"
             /\ outcome' = "unresolved"

\* forward_or_block calling the transport although the lookup of the
\* recipient gave None: the fault C22 is checked against.
forward_or_block_unresolved_sends(m, v, calls) ==
    LET recipient_agent_info == get_recipient_agent_info(m.recipient_agent_id)
    IN  IF v.allowed
        THEN /\ sends' = Append(calls, send_message_call(m, recipient_agent_info))
             /\ pc' = "send"
             /\ outcome' = "none"
        ELSE /\ sends' = calls
             /\ pc' = "done"
             /\ outcome' = "blocked"

\* handle_message from `if allowed:` on, up to the await of send_message:
\* look the recipient up and call the transport, or block.  `calls` are the
\* transport calls made for this message so far.
forward_or_block(m, v, calls) ==
    LET final_recipient_agent_id == m.recipient_agent_id
        recipient_agent_info == get_recipient_agent_info(final_recipient_agent_id)
    IN  IF v.allowed
        THEN IF found(recipient_agent_info)
             THEN /\ sends' = Append(calls, send_message_call(m, recipient_agent_info))
                  /\ pc' = "send"
                  /\ outcome' = "none"
             ELSE /\ sends' = calls
                  /\ pc' = "done"
                  /\ outcome' = "unresolved"
        ELSE /\ sends' = calls
             /\ pc' = "done"
             /\ outcome' = "blocked"

\* handle_message(message), from its entry to its first suspension: the
\* `if not self.db` return, the project_id lookup and _should_allow_message
\* up to the bid query.
handle_message(m) ==
    /\ pc = "idle"
    /\ message' = m
    /\ query_raised' = FALSE
    /\ UNCHANGED <<db, environ, other_vars, bids, contacts, task_vars>>
    /\ IF db = NONE
       THEN /\ pc' = "done"
            /\ outcome' = "dropped"
            /\ verdict' = NoVerdict
            /\ queried' = FALSE
            /\ sends' = << >>
       ELSE LET e == should_allow_message_entry(
                        project_id_of(m), m.sender_agent_id, m.recipient_agent_id)
            IN  IF e.returned
                THEN /\ verdict' = e.verdict
                     /\ queried' = FALSE
                     /\ forward_or_block(m, e.verdict, << >>)
                ELSE /\ verdict' = NoVerdict
                     /\ queried' = TRUE
                     /\ pc' = "query"
                     /\ outcome' = "none"
                     /\ sends' = << >>

\* handle_message_query_done giving up the client when the query raises:
\* the fault C23 is checked against.
handle_message_query_done_drops_client(raised) ==
    /\ pc = "query"
    /\ LET e == should_allow_message_entry(
                    project_id_of(message), message.sender_agent_id,
                    message.recipient_agent_id)
           bid_list == IF raised THEN << >>
                       ELSE select_bid_status(bids, project_id_of(message),
                                              e.contractor_user_id)
           v == should_allow_message_resume(bid_list, message.sender_agent_id, raised)
       IN  /\ query_raised' = raised
           /\ verdict' = v
           /\ forward_or_block(message, v, sends)
    /\ db' = IF raised THEN NONE ELSE db
    /\ UNCHANGED <<environ, other_vars, bids, message, queried, contacts, task_vars>>

\* handle_message resumed when `await query.execute()` returns or raises:
\* the rest of _should_allow_message, then `if allowed:` up to the send.
handle_message_query_done(raised) ==
    /\ pc = "query"
    /\ LET e == should_allow_message_entry(
                    project_id_of(message), message.sender_agent_id,
                    message.recipient_agent_id)
           bid_list == IF raised THEN << >>
                       ELSE select_bid_status(bids, project_id_of(message),
                                              e.contractor_user_id)
           v == should_allow_message_resume(bid_list, message.sender_agent_id, raised)
       IN  /\ query_raised' = raised
           /\ verdict' = v
           /\ forward_or_block(message, v, sends)
    /\ UNCHANGED <<db, environ, other_vars, bids, message, queried, contacts, task_vars>>

\* send_message_returns calling the transport a second time when the first
\* send fails or raises: the fault C21 is checked against.
send_message_returns_retry(result) ==
    /\ pc = "send"
    /\ IF result # "True" /\ Len(sends) < 2
       THEN /\ sends' = Append(sends, sends[Len(sends)])
            /\ UNCHANGED <<pc, outcome>>
       ELSE /\ pc' = "done"
            /\ outcome' = IF result = "True" THEN "delivered" ELSE "failed"
            /\ UNCHANGED sends
    /\ UNCHANGED <<db, environ, other_vars, bids, message, queried, query_raised,
                   verdict, task_vars>>

\* send_message_returns without the `except Exception` of the forwarding:
\* the fault C20 is checked against.
send_message_returns_uncaught(result) ==
    /\ pc = "send"
    /\ pc' = "done"
    /\ outcome' = IF result = "True" THEN "delivered"
                  ELSE IF result = "False" THEN "failed" ELSE "raised"
    /\ UNCHANGED <<db, environ, other_vars, bids, message, queried, query_raised,
                   verdict, sends, task_vars>>

\* handle_message resumed when `await a2a_client.send_message(..)` returns
\* True or False, or raises: the failure is logged, nothing is retried.
send_message_returns(result) ==
    /\ pc = "send"
    /\ pc' = "done"
    /\ outcome' = IF result = "True" THEN "delivered" ELSE "failed"
    /\ UNCHANGED <<db, environ, other_vars, bids, message, queried, query_raised,
                   verdict, sends, task_vars>>

\* The resumption of handle_message, which writes nothing to a message store.
handle_message_send_done(result) ==
    send_message_returns(result) /\ UNCHANGED contacts

\* handle_message returns: its locals, and the record of what it did for
\* the message, go with it.
handle_message_return ==
    /\ pc = "done"
    /\ pc' = "idle"
    /\ message' = NoMessage
    /\ queried' = FALSE
    /\ query_raised' = FALSE
    /\ verdict' = NoVerdict
    /\ sends' = << >>
    /\ outcome' = "none"
    /\ UNCHANGED <<db, environ, other_vars, bids, contacts, task_vars>>

\* ------------------------------------------------------------ the bids table

\* ContractorAgent.submit_bid when its insert succeeds: the row it adds to
\* the table, with status "pending".  (When the agent has no client, a field
\* is missing or the insert fails, the table is left as it is.)
submit_bid(project_id, contractor_id) ==
    /\ Len(bids) < MaxBids
    /\ bids' = Append(bids, [project_id |-> project_id,
                             contractor_id |-> contractor_id,
                             status |-> "pending"])
    /\ UNCHANGED <<db, environ, other_vars, msg_vars, contacts, task_vars>>

\* The bid lifecycle, driven from outside the gate: a bid's status changes;
\* a pair never has two accepted bids.
update_bid_status(i, status) ==
    /\ i \in 1..Len(bids)
    /\ bids[i].status # status
    /\ status = "accepted" =>
           \A j \in 1..Len(bids) :
               (/\ bids[j].project_id = bids[i].project_id
                /\ bids[j].contractor_id = bids[i].contractor_id)
                   => bids[j].status # "accepted"
    /\ bids' = [bids EXCEPT ![i].status = status]
    /\ UNCHANGED <<db, environ, other_vars, msg_vars, contacts, task_vars>>

\* ----------------------------------------------------------- specification

\* MessagingAgent.__init__: the client is injected or created, or None when
\* the environment lacks the Supabase settings or create_client fails.
Init ==
    /\ db \in {"client", NONE}
    /\ environ \in Environs
    /\ bids = << >>
    /\ pc = "idle"
    /\ message = NoMessage
    /\ queried = FALSE
    /\ query_raised = FALSE
    /\ verdict = NoVerdict
    /\ sends = << >>
    /\ outcome = "none"
    /\ contacts = {}
    /\ bpc = "idle"
    /\ task = NoTask
    /\ recipients = << >>
    /\ fanout = << >>
    /\ boutcome = "none"
    /\ returned = NotReturned
    /\ _agent_cache = [k \in {} |-> NoAgent]
    /\ _agent_creation_locks = [k \in {} |-> Unlocked]
    /\ callers = [t \in Callers |-> NotCalling]
    /\ agents = << >>
    /\ _homeowner = NoAgent
    /\ _contractor = NoAgent
    /\ adk_agents = << >>
    /\ factory_calls = << >>
    /\ bid_call = NoBidCall
    /\ hcall = NoHomeownerCall
    /\ tasks_table = [id \in TaskIds |-> NoRow]
    /\ logged_status = [id \in TaskIds |-> "none"]
    /\ _active_flow_sessions = [id \in {} |-> [flow_state |-> NONE]]
    /\ prompts = << >>

Next ==
    \/ \E m \in Messages : handle_message(m)
    \/ \E raised \in BOOLEAN : handle_message_query_done(raised)
    \/ \E result \in {"True", "False", "raises"} : handle_message_send_done(result)
    \/ handle_message_return
    \/ \E p \in BidProjectIds, c \in ContractorIds : submit_bid(p, c)
    \/ \E i \in 1..MaxBids, status \in BidStatuses : update_bid_status(i, status)

Spec == Init /\ [][Next]_vars

\* The event loop resumes a coroutine whose awaited bid query or transport
\* send has completed, and both complete (by returning or by raising).
Fairness ==
    /\ WF_vars(\E raised \in BOOLEAN : handle_message_query_done(raised))
    /\ WF_vars(\E result \in {"True", "False", "raises"} :
                  handle_message_send_done(result))

\* The messaging agent handling messages while bids are placed.
NextIntake ==
    \/ \E m \in Messages : handle_message(m)
    \/ \E raised \in BOOLEAN : handle_message_query_done(raised)
    \/ \E result \in {"True", "False", "raises"} : handle_message_send_done(result)
    \/ handle_message_return
    \/ \E p \in BidProjectIds, c \in ContractorIds : submit_bid(p, c)

SpecIntake == Init /\ [][NextIntake]_vars /\ Fairness

\* ------------------------------------------------------ handle_create_task

\* task.metadata and task.metadata.get("action") == "broadcast"
is_broadcast(t) ==
    /\ t.metadata # NoMetadata
    /\ t.metadata.action = "broadcast"

\* project_id and broadcast_content and sender_id
has_broadcast_data(t) ==
    /\ Truthy(t.metadata.project_id)
    /\ TruthyId(t.metadata.content)
    /\ TruthyId(t.creator_agent_id)

\* bids_res.data of .select("contractor_id").eq("project_id", project_id)
select_contractor_id(table, project_id) ==
    LET Match(row) == row.project_id = project_id
        rows == SelectSeq(table, Match)
    IN  [i \in 1..Len(rows) |-> [contractor_id |-> rows[i].contractor_id]]

\* set(bid["contractor_id"] for bid in bids_res.data)
contractor_id_set(data) == {data[i].contractor_id : i \in 1..Len(data)}

\* The lists list(set(..)) may give: the set's elements in any order.
list_of_set(S) ==
    {order \in [1..Cardinality(S) -> S] :
        \A i, j \in 1..Cardinality(S) : i # j => order[i] # order[j]}

\* The keyword arguments of the a2a_client.send_message call of a broadcast.
broadcast_send_message_call(t, recipient_agent_info) ==
    [target_agent |-> recipient_agent_info,
     task_id |-> <<"broadcast_", t.metadata.project_id>>,
     role |-> "SYSTEM",
     content |-> t.metadata.content,
     sender_agent_id |-> t.creator_agent_id,
     metadata |-> [broadcast |-> TRUE, project_id |-> t.metadata.project_id]]

\* What the loop does for one recipient up to its await of send_message:
\* the agent id is derived from the user id and looked up; the recipient is
\* skipped with a warning when the lookup gives None.
visit(t, recipient_user_id) ==
    LET recipient_agent_id == broadcast_agent_id(recipient_user_id)
        recipient_agent_info == get_recipient_agent_info(recipient_agent_id)
    IN  [recipient_user_id |-> recipient_user_id,
         recipient_agent_id |-> recipient_agent_id,
         call |-> IF found(recipient_agent_info)
                  THEN broadcast_send_message_call(t, recipient_agent_info)
                  ELSE NoCall,
         result |-> IF found(recipient_agent_info) THEN "awaited" ELSE "skipped"]

\* `for recipient_user_id in recipient_user_ids:` run from the recipient
\* after those of `visited` up to the next await of send_message, or to the
\* end of the list.
RECURSIVE broadcast_loop(_, _, _)
broadcast_loop(t, order, visited) ==
    IF Len(visited) = Len(order) THEN visited
    ELSE LET entry == visit(t, order[Len(visited) + 1])
         IN  IF entry.result = "awaited" THEN Append(visited, entry)
             ELSE broadcast_loop(t, order, Append(visited, entry))

\* Is the loop suspended in send_message?
awaiting(visited) ==
    Len(visited) > 0 /\ visited[Len(visited)].result = "awaited"

\* _handle_broadcast and handle_create_task return None.
broadcast_returns(how) ==
    /\ bpc' = "done"
    /\ boutcome' = how
    /\ returned' = ReturnsNone

\* The loop suspended in send_message, or finished.
broadcast_continues(visited) ==
    /\ fanout' = visited
    /\ IF awaiting(visited)
       THEN bpc' = "send" /\ UNCHANGED <<boutcome, returned>>
       ELSE broadcast_returns("completed")

\* handle_create_task without the test of project_id, content and sender:
\* the fault C36 is checked against.
handle_create_task_no_data_check(t) ==
    /\ bpc = "idle"
    /\ task' = t
    /\ UNCHANGED <<db, environ, other_vars, bids, msg_vars, contacts, recipients, fanout>>
    /\ IF ~is_broadcast(t) THEN broadcast_returns("not implemented")
       ELSE IF db = NONE THEN broadcast_returns("client unavailable")
       ELSE bpc' = "query" /\ UNCHANGED <<boutcome, returned>>

\* handle_create_task up to the await of the bid query of _handle_broadcast,
\* or to its return when the task is no broadcast, lacks data, or there is
\* no client.
handle_create_task(t) ==
    /\ bpc = "idle"
    /\ task' = t
    /\ UNCHANGED <<db, environ, other_vars, bids, msg_vars, contacts, recipients, fanout>>
    /\ IF ~is_broadcast(t) THEN broadcast_returns("not implemented")
       ELSE IF ~has_broadcast_data(t) THEN broadcast_returns("missing data")
       ELSE IF db = NONE THEN broadcast_returns("client unavailable")
       ELSE bpc' = "query" /\ UNCHANGED <<boutcome, returned>>

\* broadcast_query_done looping over the rows of the query instead of the
\* set of their contractor ids: the fault C37 is checked against.
broadcast_query_done_no_set(raised, order) ==
    /\ bpc = "query"
    /\ UNCHANGED <<db, environ, other_vars, bids, msg_vars, contacts, task>>
    /\ LET data == select_contractor_id(bids, task.metadata.project_id)
           rows == [i \in 1..Len(data) |-> data[i].contractor_id]
       IN  IF raised
           THEN /\ order = << >>
                /\ broadcast_returns("error")
                /\ UNCHANGED <<recipients, fanout>>
           ELSE IF Len(data) = 0
           THEN /\ order = << >>
                /\ broadcast_returns("no bidders")
                /\ UNCHANGED <<recipients, fanout>>
           ELSE /\ order \in list_of_set(contractor_id_set(data))
                /\ recipients' = rows
                /\ broadcast_continues(broadcast_loop(task, rows, << >>))

\* _handle_broadcast resumed when the bid query returns or raises: the outer
\* except logs the error; without rows there is nothing to broadcast;
\* otherwise the loop starts over the unique contractor ids.
broadcast_query_done(raised, order) ==
    /\ bpc = "query"
    /\ UNCHANGED <<db, environ, other_vars, bids, msg_vars, contacts, task>>
    /\ LET data == select_contractor_id(bids, task.metadata.project_id)
       IN  IF raised
           THEN /\ order = << >>
                /\ broadcast_returns("error")
                /\ UNCHANGED <<recipients, fanout>>
           ELSE IF Len(data) = 0
           THEN /\ order = << >>
                /\ broadcast_returns("no bidders")
                /\ UNCHANGED <<recipients, fanout>>
           ELSE /\ order \in list_of_set(contractor_id_set(data))
                /\ recipients' = order
                /\ broadcast_continues(broadcast_loop(task, order, << >>))

\* broadcast_send_done leaving the loop when send_message raises: the fault
\* C15 is checked against.
broadcast_send_done_outer_except(result) ==
    /\ bpc = "send"
    /\ UNCHANGED <<db, environ, other_vars, bids, msg_vars, contacts, task, recipients>>
    /\ LET visited == [fanout EXCEPT ![Len(fanout)].result = result]
       IN  IF result = "raises"
           THEN fanout' = visited /\ broadcast_returns("error")
           ELSE broadcast_continues(broadcast_loop(task, recipients, visited))

\* _handle_broadcast resumed when `await a2a_client.send_message(..)` returns
\* True or False (the value is dropped) or raises (the inner except logs the
\* error): the loop goes on with the next recipient.
broadcast_send_done(result) ==
    /\ bpc = "send"
    /\ UNCHANGED <<db, environ, other_vars, bids, msg_vars, contacts, task, recipients>>
    /\ LET visited == [fanout EXCEPT ![Len(fanout)].result = result]
       IN  broadcast_continues(broadcast_loop(task, recipients, visited))

\* The caller has the return value; the agent is ready for the next task.
handle_create_task_return ==
    /\ bpc = "done"
    /\ bpc' = "idle"
    /\ task' = NoTask
    /\ recipients' = << >>
    /\ fanout' = << >>
    /\ boutcome' = "none"
    /\ returned' = NotReturned
    /\ UNCHANGED <<db, environ, other_vars, bids, msg_vars, contacts>>

\* The bid orders a query may give for some state of the table.
Orders == UNION {list_of_set(S) : S \in SUBSET ContractorIds}

\* The messaging agent handling tasks while bids are placed and change.
NextBroadcast ==
    \/ \E t \in Tasks : handle_create_task(t)
    \/ \E raised \in BOOLEAN, order \in Orders : broadcast_query_done(raised, order)
    \/ \E result \in {"True", "False", "raises"} : broadcast_send_done(result)
    \/ handle_create_task_return
    \/ \E p \in BidProjectIds, c \in ContractorIds : submit_bid(p, c)
    \/ \E i \in 1..MaxBids, status \in BidStatuses : update_bid_status(i, status)

SpecBroadcast == Init /\ [][NextBroadcast]_vars

\* The messaging agent with both entry points.  The two coroutines share no
\* state they write, so each unit of work is run to its end before the next
\* one starts.
NextGate ==
    \/ bpc = "idle" /\ Next
    \/ pc = "idle" /\ NextBroadcast

SpecGate == Init /\ [][NextGate]_vars

\* ------------------------------------------------------- the gate's claims

\* Words of a content that are contact information (a phone number).
ContactWords == {"555-1234"}

HasContactInfo(content) == \E i \in 1..Len(content) : content[i] \in ContactWords

\* The two parties resolve to the same role.
SameRole(m) == is_contractor(m.sender_agent_id) = is_contractor(m.recipient_agent_id)

\* The contractor of a homeowner<->contractor message.
PairContractor(m) ==
    IF is_contractor(m.sender_agent_id) THEN m.sender_agent_id
    ELSE m.recipient_agent_id

\* The statuses of the bids the (project, contractor) pair of m has in table.
PairBidStatuses(table, m) ==
    {table[i].status : i \in {j \in 1..Len(table) :
        /\ table[j].project_id = project_id_of(m)
        /\ table[j].contractor_id = PairContractor(m)}}

\* The step in which the bid query of the message in hand returns or raises
\* and the permission check completes.
QueryReturns == pc = "query" /\ pc' # "query"

\* The identifier matches no role mapping: it is neither a homeowner's
\* ("homeowner-agent-...") nor a contractor's ("contractor-agent-...").
UnknownId(agent_id) ==
    ~Contains(HOMEOWNER_AGENT, agent_id) /\ ~Contains(CONTRACTOR_AGENT, agent_id)

\* The last call made to the transport.
LastSend(calls) == calls[Len(calls)]

\* C1: every transport send made for a message was made after the
\* permission check of that same message returned allow, with the client
\* available; a denied or dropped message has no send.
C1_SendOnlyAfterAllow ==
    /\ \A i \in 1..Len(sends) :
           /\ db # NONE
           /\ verdict.allowed
           /\ sends[i].sender_agent_id = message.sender_agent_id
           /\ sends[i].target_agent.id = message.recipient_agent_id
    /\ outcome \in {"blocked", "dropped"} => sends = << >>
    /\ pc = "send" => Len(sends) = 1

\* C1 witness: an allowed message whose send is in flight.
C1_Witness == pc = "send" /\ Len(sends) = 1 /\ verdict.allowed

\* C2: a message whose parties resolve to the same role is never allowed
\* and never sent, whatever bids exist; the bid store is not even read.
C2_SameRoleDenied ==
    (pc # "idle" /\ SameRole(message)) =>
        /\ pc = "done"
        /\ ~verdict.allowed
        /\ outcome \in {"blocked", "dropped"}
        /\ sends = << >>
        /\ ~queried

\* C2 witness: a contractor-to-contractor message on a project where the
\* sending contractor has an accepted bid was blocked.
C2_Witness ==
    /\ pc = "done" /\ outcome = "blocked"
    /\ is_contractor(message.sender_agent_id)
    /\ is_contractor(message.recipient_agent_id)
    /\ message.sender_agent_id # message.recipient_agent_id
    /\ "accepted" \in PairBidStatuses(bids, message)
    /\ verdict.reason = "Blocked: Contractor-to-contractor messaging not supported"

\* C3: when the query returns and the pair has an accepted bid, the verdict
\* is (True, "Allowed: Bid accepted") whichever side sends and whatever
\* other bids the pair has, and the content handed to the transport is the
\* message's content (transform none).
C3_AcceptedBidAllows ==
    [][(QueryReturns /\ ~query_raised' /\ "accepted" \in PairBidStatuses(bids, message))
        => /\ verdict' = Verdict(TRUE, "Allowed: Bid accepted")
           /\ pc' = "send" \/ outcome' = "unresolved"
           /\ pc' = "send" => LastSend(sends').content = message.content]_vars

\* C3 witness: a homeowner's message is being sent under "Bid accepted"
\* while the pair also has a bid that is not accepted.
C3_Witness ==
    /\ pc = "send"
    /\ verdict = Verdict(TRUE, "Allowed: Bid accepted")
    /\ ~is_contractor(message.sender_agent_id)
    /\ {"accepted", "pending"} \subseteq PairBidStatuses(bids, message)

\* C4: when the query returns and all the pair's bids are pending, the
\* message is allowed and what the transport gets has its contact
\* information redacted.
C4_PendingAllowsRedacted ==
    [][(QueryReturns /\ ~query_raised' /\ PairBidStatuses(bids, message) = {"pending"})
        => /\ verdict'.allowed
           /\ pc' = "send" => ~HasContactInfo(LastSend(sends').content)]_vars

\* C5: when the query returns, the pair has no bid and the contractor is
\* the sender, the message is allowed as initial pre-bid contact and what
\* the transport gets has its contact information redacted.
C5_PreBidContactAllowsRedacted ==
    [][(QueryReturns /\ ~query_raised' /\ PairBidStatuses(bids, message) = {}
            /\ is_contractor(message.sender_agent_id))
        => /\ verdict' = Verdict(TRUE, "Allowed: Initial pre-bid contact")
           /\ pc' = "send" => ~HasContactInfo(LastSend(sends').content)]_vars

\* C6: when the permission check of a homeowner's message to a contractor
\* completes and the pair has no bid, the message is denied and nothing is
\* sent.
C6_HomeownerPreBidDenied ==
    [][(QueryReturns /\ PairBidStatuses(bids, message) = {}
            /\ ~is_contractor(message.sender_agent_id))
        => /\ ~verdict'.allowed
           /\ pc' = "done"
           /\ outcome' = "blocked"
           /\ sends' = << >>]_vars

\* C6 witness: a homeowner's message on a pair without bids ended blocked
\* by the default deny.
C6_Witness ==
    /\ pc = "done" /\ outcome = "blocked" /\ queried /\ ~query_raised
    /\ message.sender_agent_id = HOMEOWNER_AGENT_001
    /\ PairBidStatuses(bids, message) = {}
    /\ verdict = Verdict(FALSE, "Blocked: No accepted/pending bid or prior contact")

\* C7: when the query returns and the pair has bids, none of them accepted
\* or pending, the verdict is the default deny, whichever side sends.
C7_OnlyClosedBidsDenied ==
    [][(QueryReturns /\ ~query_raised'
            /\ PairBidStatuses(bids, message) # {}
            /\ PairBidStatuses(bids, message) \subseteq {"rejected", "withdrawn"})
        => /\ verdict' = Verdict(FALSE, "Blocked: No accepted/pending bid or prior contact")
           /\ pc' = "done"
           /\ outcome' = "blocked"
           /\ sends' = << >>]_vars

\* C7 witness: a contractor's message on a pair whose bids are rejected and
\* withdrawn ended blocked by the default deny.
C7_Witness ==
    /\ pc = "done" /\ outcome = "blocked" /\ queried /\ ~query_raised
    /\ is_contractor(message.sender_agent_id)
    /\ PairBidStatuses(bids, message) = {"rejected", "withdrawn"}
    /\ verdict = Verdict(FALSE, "Blocked: No accepted/pending bid or prior contact")

\* C8: a message without project context whose permission check ran is
\* denied with "Missing project context", whatever the roles and the bids,
\* without the bid store being queried and without a send.
C8_NoProjectContextDeniedFirst ==
    (pc # "idle" /\ db # NONE /\ ~Truthy(project_id_of(message))) =>
        /\ verdict = Verdict(FALSE, "Blocked: Missing project context")
        /\ ~queried
        /\ pc = "done"
        /\ outcome = "blocked"
        /\ sends = << >>

\* C8 witness: a contractor-to-contractor message without project context
\* was denied for the missing context while the sender has an accepted bid.
C8_Witness ==
    /\ pc = "done" /\ db # NONE
    /\ ~Truthy(project_id_of(message))
    /\ is_contractor(message.sender_agent_id)
    /\ is_contractor(message.recipient_agent_id)
    /\ \E i \in 1..Len(bids) :
           /\ bids[i].contractor_id = message.sender_agent_id
           /\ bids[i].status = "accepted"
    /\ verdict.reason = "Blocked: Missing project context"

\* The reasons _should_allow_message returns with.
Reasons ==
    {"Blocked: Missing project context",
     "Blocked: Database connection unavailable",
     "Blocked: Contractor-to-contractor messaging not supported",
     "Blocked: Homeowner-to-homeowner messaging not supported",
     "Blocked: Could not identify homeowner/contractor roles or map AgentID to UserID",
     "Allowed: Bid accepted",
     "Allowed: Bid pending (redaction may apply)",
     "Allowed: Follow-up contact",
     "Allowed: Initial pre-bid contact",
     "Blocked: No accepted/pending bid or prior contact",
     "Blocked: Error checking permissions"}

\* C9: when the bid query raised, the verdict is the deny of the except
\* clause and nothing is sent; without a client nothing is queried or sent;
\* and every permission check that ran ended in a verdict.
C9_FailClosed ==
    /\ query_raised =>
           /\ verdict = Verdict(FALSE, "Blocked: Error checking permissions")
           /\ pc = "done"
           /\ outcome = "blocked"
           /\ sends = << >>
    /\ db = NONE => (~verdict.allowed /\ ~queried /\ sends = << >>)
    /\ (pc \in {"send", "done"} /\ outcome # "dropped") =>
           verdict \in [allowed : BOOLEAN, reason : Reasons]

\* C9 witness: the query raised for a message whose pair has an accepted
\* bid, and the message ended blocked.
C9_Witness ==
    /\ query_raised /\ pc = "done" /\ outcome = "blocked"
    /\ "accepted" \in PairBidStatuses(bids, message)

\* C10: a message whose sender or recipient matches no role mapping is
\* never handed to the transport.
C10_UnknownIdentityDenied ==
    (pc # "idle" /\ (\/ UnknownId(message.sender_agent_id)
                     \/ UnknownId(message.recipient_agent_id)))
        => (sends = << >> /\ pc # "send" /\ outcome # "delivered")

\* The step in which handle_message hands the message in hand to the
\* transport.
Forwards == Len(sends') > Len(sends)

\* --------------------------------------------------------- message history

\* The messages of contractors to the homeowner's agent.
ContactMessages ==
    {m \in Messages :
        /\ is_contractor(m.sender_agent_id)
        /\ m.recipient_agent_id = HOMEOWNER_AGENT_001
        /\ project_id_of(m) \in {"P1", "P2"}}

\* The message store keeps what the transport delivered: the existing
\* messages "between them for this project_id" of Option A.
record_contact(result) ==
    contacts' =
        IF result = "True"
        THEN contacts \cup {<<project_id_of(message), message.sender_agent_id,
                              message.recipient_agent_id>>}
        ELSE contacts

\* The resumption of handle_message with the delivery recorded.
handle_message_send_done_recorded(result) ==
    send_message_returns(result) /\ record_contact(result)

\* The messaging agent handling contractors' messages while the message
\* store records the deliveries.
NextContact ==
    \/ \E m \in ContactMessages : handle_message(m)
    \/ \E raised \in BOOLEAN : handle_message_query_done(raised)
    \/ \E result \in {"True", "False", "raises"} :
           handle_message_send_done_recorded(result)
    \/ handle_message_return
    \/ \E p \in BidProjectIds, c \in ContractorIds : submit_bid(p, c)
    \/ \E i \in 1..MaxBids, st \in BidStatuses : update_bid_status(i, st)

SpecContact == Init /\ [][NextContact]_vars

\* ------------------------------------------------------------------ claims

\* C11: a message handed to the transport while its pair has no accepted
\* bid carries no contact information.
C11_NoContactInfoWithoutAcceptedBid ==
    [][(Forwards /\ "accepted" \notin PairBidStatuses(bids, message))
        => ~HasContactInfo(LastSend(sends').content)]_vars

\* C12: when the pair has an accepted bid and the message is forwarded, the
\* content, sender, task id, role, session id, artifacts and metadata handed
\* to the transport are the message's, and the target is its recipient.
C12_AcceptedDeliveredUnmodified ==
    [][(Forwards /\ "accepted" \in PairBidStatuses(bids, message))
        => LET call == LastSend(sends')
           IN  /\ Len(sends') = 1
               /\ call.content = message.content
               /\ call.sender_agent_id = message.sender_agent_id
               /\ call.task_id = message.task_id
               /\ call.role = message.role
               /\ call.session_id = message.session_id
               /\ call.artifacts = message.artifacts
               /\ call.metadata = message.metadata
               /\ call.target_agent.id = message.recipient_agent_id]_vars

\* C12 witness: a contractor's message giving a phone number is with the
\* transport, addressed to the homeowner, while the pair has an accepted bid.
C12_Witness ==
    /\ pc = "send"
    /\ verdict = Verdict(TRUE, "Allowed: Bid accepted")
    /\ is_contractor(message.sender_agent_id)
    /\ HasContactInfo(message.content)
    /\ LastSend(sends).content = message.content
    /\ LastSend(sends).target_agent.id = HOMEOWNER_AGENT_001
    /\ "accepted" \in PairBidStatuses(bids, message)

\* The verdict the rules give a homeowner-contractor pair whose bids have
\* the statuses `statuses` when the check is made.
VerdictFor(statuses, sender_is_contractor) ==
    IF "accepted" \in statuses THEN Verdict(TRUE, "Allowed: Bid accepted")
    ELSE IF "pending" \in statuses
    THEN Verdict(TRUE, "Allowed: Bid pending (redaction may apply)")
    ELSE IF sender_is_contractor /\ statuses = {}
    THEN Verdict(TRUE, "Allowed: Initial pre-bid contact")
    ELSE Verdict(FALSE, "Blocked: No accepted/pending bid or prior contact")

\* C13: the verdict of each message whose bid query returns is the one the
\* rules give the statuses the pair's bids have at that moment, whatever
\* earlier messages were given.
C13_VerdictFresh ==
    [][(QueryReturns /\ ~query_raised')
        => verdict' = VerdictFor(PairBidStatuses(bids, message),
                                 is_contractor(message.sender_agent_id))]_vars

\* C13 witness: a homeowner's message ended denied while the pair's only
\* bid, which is no longer accepted or pending, is withdrawn.
C13_Witness ==
    /\ pc = "done" /\ outcome = "blocked" /\ queried /\ ~query_raised
    /\ ~is_contractor(message.sender_agent_id)
    /\ verdict = Verdict(FALSE, "Blocked: No accepted/pending bid or prior contact")
    /\ PairBidStatuses(bids, message) = {"withdrawn"}

\* C14: when the query returns with no bid of the pair, a contractor's
\* message is allowed as initial pre-bid contact if nothing of that
\* contractor was delivered to the homeowner on the project before, and as
\* follow-up contact if something was.
C14_FollowUpContact ==
    [][(QueryReturns /\ ~query_raised' /\ is_contractor(message.sender_agent_id)
            /\ PairBidStatuses(bids, message) = {})
        => verdict' =
             IF <<project_id_of(message), message.sender_agent_id,
                  message.recipient_agent_id>> \in contacts
             THEN Verdict(TRUE, "Allowed: Follow-up contact")
             ELSE Verdict(TRUE, "Allowed: Initial pre-bid contact")]_vars

\* ---------------------------------------------------- the broadcast's claims

\* The step in which the bid query of the broadcast in hand returns or raises.
BroadcastQueryReturns == bpc = "query" /\ bpc' # "query"

\* C15: a broadcast that had recipients ends with every recipient of the
\* list visited in turn, and send_message called for every recipient whose
\* derived agent id has an endpoint, whatever happened to the others.
C15_FanOutIsolated ==
    (bpc = "done" /\ recipients # << >>)
        => /\ Len(fanout) = Len(recipients)
           /\ \A i \in 1..Len(recipients) :
                 /\ fanout[i].recipient_user_id = recipients[i]
                 /\ found(get_recipient_agent_info(broadcast_agent_id(recipients[i])))
                        => /\ fanout[i].call # NoCall
                           /\ fanout[i].result \in {"True", "False", "raises"}

\* C15 witness: the send to the first of two recipients raised and the send
\* to the second was made and succeeded.
C15_Witness ==
    /\ bpc = "done"
    /\ Len(recipients) = 2 /\ Len(fanout) = 2
    /\ fanout[1].result = "raises"
    /\ fanout[2].result = "True"

\* C16: a broadcast that had recipients returns one outcome per recipient,
\* "delivered" when the send to that recipient succeeded and "failed"
\* otherwise.
C16_OneOutcomePerRecipient ==
    (bpc = "done" /\ recipients # << >>)
        => /\ "outcomes" \in DOMAIN returned
           /\ Len(returned.outcomes) = Len(recipients)
           /\ \A i \in 1..Len(recipients) :
                 returned.outcomes[i] =
                     IF i <= Len(fanout) /\ fanout[i].result = "True"
                     THEN "delivered" ELSE "failed"

\* C17: when the bid query of a broadcast returns, every recipient it gives
\* has a pending or accepted bid on the project, or a recorded contact.
C17_RecipientsHaveOpenBid ==
    [][BroadcastQueryReturns
        => \A i \in 1..Len(recipients') :
             \/ \E j \in 1..Len(bids) :
                    /\ bids[j].project_id = task.metadata.project_id
                    /\ bids[j].contractor_id = recipients'[i]
                    /\ bids[j].status \in {"pending", "accepted"}
             \/ \E c \in contacts :
                    c[1] = task.metadata.project_id /\ c[2] = recipients'[i]]_vars

\* The agent a contractor id of the bids table belongs to: ContractorAgent
\* bids under its own agent id; the factory names a user's agent
\* f"contractor-agent-{user_id}".
own_agent_id(contractor_id) ==
    IF is_contractor(contractor_id) THEN contractor_id
    ELSE CONTRACTOR_AGENT \o <<"-">> \o contractor_id

\* C18: when the bid query of a broadcast returns, every contractor with a
\* pending or accepted bid on the project whose own agent has an endpoint is
\* among the agents the fan-out addresses.
C18_BiddersOwnAgentAddressed ==
    [][(BroadcastQueryReturns /\ boutcome' # "error")
        => \A c \in ContractorIds :
             (/\ \E j \in 1..Len(bids) :
                    /\ bids[j].project_id = task.metadata.project_id
                    /\ bids[j].contractor_id = c
                    /\ bids[j].status \in {"pending", "accepted"}
              /\ found(get_recipient_agent_info(own_agent_id(c))))
                 => \E i \in 1..Len(recipients') :
                        broadcast_agent_id(recipients'[i]) = own_agent_id(c)]_vars

\* The verdict _should_allow_message gives a direct message when its bid
\* query returns the rows of `table`.
DirectVerdict(table, project_id, sender_id, recipient_id) ==
    LET entry == should_allow_message_entry(project_id, sender_id, recipient_id)
    IN  IF entry.returned THEN entry.verdict
        ELSE should_allow_message_resume(
                 select_bid_status(table, project_id, entry.contractor_user_id),
                 sender_id, FALSE)

\* C19: whenever the fan-out hands a message to the transport, a direct
\* message of the task's creator to that recipient on the project would be
\* allowed; a contractor's broadcast is never sent to a contractor's agent.
C19_BroadcastThroughGate ==
    [][(bpc' = "send" /\ fanout' # fanout)
        => LET entry == fanout'[Len(fanout')]
           IN  /\ DirectVerdict(bids, task.metadata.project_id,
                                task.creator_agent_id,
                                entry.recipient_agent_id).allowed
               /\ ~(/\ is_contractor(task.creator_agent_id)
                    /\ is_contractor(entry.recipient_agent_id))]_vars

\* C20: no unit of work of handle_message or handle_create_task ends with
\* an exception leaving the entry point: a raising bid query ends the
\* message blocked and the broadcast logged as an error, a raising or
\* failing send ends the message failed and lets the fan-out complete, and
\* handle_create_task returns None.
C20_NoExceptionEscapes ==
    /\ outcome # "raised" /\ boutcome # "raised"
    /\ pc = "done" =>
           outcome \in {"dropped", "blocked", "unresolved", "delivered", "failed"}
    /\ query_raised => (pc = "done" /\ outcome = "blocked")
    /\ bpc = "done" =>
           /\ boutcome \in {"not implemented", "missing data", "client unavailable",
                             "error", "no bidders", "completed"}
           /\ returned = ReturnsNone
    /\ (bpc = "done" /\ \E i \in 1..Len(fanout) : fanout[i].result = "raises")
           => boutcome = "completed"

\* C20 witness: the bid query of a broadcast raised and handle_create_task
\* returned None with the error logged.
C20_Witness ==
    /\ bpc = "done" /\ boutcome = "error"
    /\ returned = ReturnsNone
    /\ is_broadcast(task) /\ recipients = << >>

\* -------------------------------------------- ContractorAgent.submit_bid

\* The amounts of the bids: None, zero and a sum.
Amounts == {NONE, "0.0", "250.0"}

\* not project_id or not contractor_id or amount is None
missing_bid_fields(project_id, contractor_id, amount) ==
    \/ ~Truthy(project_id)
    \/ ~TruthyId(contractor_id)
    \/ amount = NONE

\* bid_data, its None values cleaned away (description and metadata are
\* not given): the row to insert.
bid_data(project_id, contractor_id, amount) ==
    [project_id |-> project_id,
     contractor_id |-> contractor_id,
     amount |-> amount,
     status |-> "pending"]

\* The columns of an inserted row that the messaging agent selects.
bid_row(data) ==
    [project_id |-> data.project_id,
     contractor_id |-> data.contractor_id,
     status |-> data.status]

\* submit_bid up to the await of the insert, or to `return False` when the
\* agent has no client or a required field is missing.
submit_bid_call(agent_db, project_id, contractor_id, amount) ==
    /\ bid_call.pc = "idle"
    /\ Len(bids) < MaxBids
    /\ bid_call' =
          [pc |-> IF agent_db = NONE
                     \/ missing_bid_fields(project_id, contractor_id, amount)
                  THEN "done" ELSE "insert",
           db |-> agent_db,
           bid_data |-> bid_data(project_id, contractor_id, amount),
           rows_before |-> Len(bids),
           insert |-> "not called",
           result |-> IF agent_db = NONE
                         \/ missing_bid_fields(project_id, contractor_id, amount)
                      THEN "False" ELSE "pending"]
    /\ UNCHANGED <<gate_vars, bids, factory_vars, singleton_vars>>

\* submit_bid_insert_done returning True whatever the insert returned: the
\* fault C30 is checked against.
submit_bid_insert_done_always_true(res) ==
    /\ bid_call.pc = "insert"
    /\ bids' = IF res = "row" THEN Append(bids, bid_row(bid_call.bid_data))
               ELSE bids
    /\ bid_call' = [bid_call EXCEPT !.pc = "done", !.insert = res,
                                    !.result = IF res = "raises" THEN "False"
                                               ELSE "True"]
    /\ UNCHANGED <<gate_vars, factory_vars, singleton_vars>>

\* submit_bid resumed when the insert returns a row (the table has the new
\* row), returns no row, or raises.
submit_bid_insert_done(res) ==
    /\ bid_call.pc = "insert"
    /\ bids' = IF res = "row" THEN Append(bids, bid_row(bid_call.bid_data))
               ELSE bids
    /\ bid_call' = [bid_call EXCEPT !.pc = "done", !.insert = res,
                                    !.result = IF res = "row" THEN "True"
                                               ELSE "False"]
    /\ UNCHANGED <<gate_vars, factory_vars, singleton_vars>>

\* The caller has the boolean; the agent is ready for the next bid.
submit_bid_return ==
    /\ bid_call.pc = "done"
    /\ bid_call' = NoBidCall
    /\ UNCHANGED <<gate_vars, bids, factory_vars, singleton_vars>>

\* Contractor agents submitting bids while the statuses of bids change.
NextBid ==
    \/ \E agent_db \in {"client", NONE}, p \in {"", "P1"},
          c \in ContractorIds \cup {EMPTY}, a \in Amounts :
           submit_bid_call(agent_db, p, c, a)
    \/ \E res \in {"row", "no row", "raises"} : submit_bid_insert_done(res)
    \/ submit_bid_return
    \/ \E i \in 1..MaxBids, status \in BidStatuses : update_bid_status(i, status)

SpecBid == Init /\ [][NextBid]_vars

\* -------------------------------------------------------- agents/factory.py

\* The user ids the factory is called with, and those of the users table.
UserIds == {"u1", "u2"}
UsersTable == {"u1"}

\* The agent types the factory is called with.
AgentTypes == {"homeowner", "contractor", "admin"}

\* cache_key = f"{user_id}:{agent_type}"
cache_key(user_id, agent_type) == <<user_id, ":", agent_type>>

\* The cache key of the call task t is in.
key_of(t) == cache_key(callers[t].user_id, callers[t].agent_type)

\* The tasks that are inside get_user_agent.
Calling == {t \in Callers : callers[t].pc \in {"wait_lock", "query_user", "load_memory"}}

\* The tasks that hold the agent their call returned.
Holding(agent) ==
    {t \in Callers : callers[t].pc = "returned" /\ callers[t].result = agent}

\* f with the value v at k.
Put(f, k, v) == [x \in DOMAIN f \cup {k} |-> IF x = k THEN v ELSE f[x]]

\* f without the entry at k.
Remove(f, k) == [x \in DOMAIN f \ {k} |-> f[x]]

\* The exit of `async with`: the lock passes to the task that waited
\* longest, or is free.
released(locks, k) ==
    IF locks[k].waiters = << >> THEN Put(locks, k, Unlocked)
    ELSE Put(locks, k, [holder |-> Head(locks[k].waiters),
                        waiters |-> Tail(locks[k].waiters)])

\* Task t's call returning `result`.
returns(t, result, failure) ==
    [callers EXCEPT ![t].pc = "returned", ![t].result = result,
                    ![t].failure = failure]

\* `return None` inside `async with`: nothing is cached, the lock is released.
returns_none(t, failure) ==
    /\ callers' = returns(t, NoAgent, failure)
    /\ _agent_creation_locks' = released(_agent_creation_locks, key_of(t))
    /\ UNCHANGED <<_agent_cache, agents>>

\* get_user_agent(db, user_id, agent_type, ..) called by task t, up to its
\* first suspension: the cached agent is returned; or the key's lock is
\* made if missing and taken if free (the second look at the cache then
\* finds what the first found) and the user query awaited; or the task
\* waits for the lock.
get_user_agent(t, user_id, agent_type) ==
    LET key == cache_key(user_id, agent_type)
        call == [pc |-> "idle", user_id |-> user_id, agent_type |-> agent_type,
                 waited |-> FALSE, result |-> NoAgent, failure |-> "none"]
        locks == IF key \in DOMAIN _agent_creation_locks THEN _agent_creation_locks
                 ELSE Put(_agent_creation_locks, key, Unlocked)
    IN  /\ callers[t].pc = "idle"
        /\ IF key \in DOMAIN _agent_cache
           THEN /\ callers' = [callers EXCEPT ![t] =
                                  [call EXCEPT !.pc = "returned",
                                               !.result = _agent_cache[key]]]
                /\ UNCHANGED _agent_creation_locks
           ELSE /\ Len(agents) + Cardinality(Calling) < MaxAgents
                /\ IF locks[key].holder = NONE
                   THEN /\ _agent_creation_locks' =
                               Put(locks, key, [holder |-> t, waiters |-> << >>])
                        /\ callers' = [callers EXCEPT ![t] =
                                          [call EXCEPT !.pc = "query_user"]]
                   ELSE /\ _agent_creation_locks' =
                               Put(locks, key,
                                   [locks[key] EXCEPT !.waiters = Append(@, t)])
                        /\ callers' = [callers EXCEPT ![t] =
                                          [call EXCEPT !.pc = "wait_lock",
                                                       !.waited = TRUE]]
        /\ UNCHANGED <<gate_vars, bids, _agent_cache, agents, singleton_vars, bid_call>>

\* lock_acquired without the second look at the cache: the fault C26 is
\* checked against.
lock_acquired_no_recheck(t) ==
    /\ callers[t].pc = "wait_lock"
    /\ _agent_creation_locks[key_of(t)].holder = t
    /\ callers' = [callers EXCEPT ![t].pc = "query_user"]
    /\ UNCHANGED <<gate_vars, bids, _agent_cache, _agent_creation_locks, agents,
                   singleton_vars, bid_call>>

\* get_user_agent resumed with the lock: the cache is looked at again and
\* the agent another task cached meanwhile is returned, or the user query
\* is awaited.
lock_acquired(t) ==
    /\ callers[t].pc = "wait_lock"
    /\ _agent_creation_locks[key_of(t)].holder = t
    /\ IF key_of(t) \in DOMAIN _agent_cache
       THEN /\ callers' = returns(t, _agent_cache[key_of(t)], "none")
            /\ _agent_creation_locks' = released(_agent_creation_locks, key_of(t))
       ELSE /\ callers' = [callers EXCEPT ![t].pc = "query_user"]
            /\ UNCHANGED _agent_creation_locks
    /\ UNCHANGED <<gate_vars, bids, _agent_cache, agents, singleton_vars, bid_call>>

\* user_query_done returning None without leaving `async with`: the fault
\* C27 is checked against.
user_query_done_keeps_lock(t, raised) ==
    /\ callers[t].pc = "query_user"
    /\ IF raised
       THEN /\ callers' = returns(t, NoAgent, "exception")
            /\ UNCHANGED <<_agent_cache, agents, _agent_creation_locks>>
       ELSE IF callers[t].user_id \notin UsersTable
       THEN /\ callers' = returns(t, NoAgent, "user not found")
            /\ UNCHANGED <<_agent_cache, agents, _agent_creation_locks>>
       ELSE /\ callers' = [callers EXCEPT ![t].pc = "load_memory"]
            /\ UNCHANGED <<_agent_cache, agents, _agent_creation_locks>>
    /\ UNCHANGED <<gate_vars, bids, singleton_vars, bid_call>>

\* get_user_agent resumed when the query of the users table returns or
\* raises: None is returned when it raised or found no user; otherwise the
\* PersistentMemory is made and its load awaited.
user_query_done(t, raised) ==
    /\ callers[t].pc = "query_user"
    /\ IF raised THEN returns_none(t, "exception")
       ELSE IF callers[t].user_id \notin UsersTable
       THEN returns_none(t, "user not found")
       ELSE /\ callers' = [callers EXCEPT ![t].pc = "load_memory"]
            /\ UNCHANGED <<_agent_cache, agents, _agent_creation_locks>>
    /\ UNCHANGED <<gate_vars, bids, singleton_vars, bid_call>>

\* Does agent_class(agent_info=.., supabase_client=db, memory_service=memory)
\* raise?  ContractorAgent.__init__ has no memory_service parameter: the
\* call is a TypeError.  HomeownerAgent.__init__ has one; it may still raise.
constructor_raises(agent_type, homeowner_raises) ==
    IF agent_type = "contractor" THEN TRUE ELSE homeowner_raises

\* agent_id = f"homeowner-agent-{user_id}" / f"contractor-agent-{user_id}"
user_agent_id(agent_type, user_id) == <<agent_type, "-agent-", user_id>>

\* get_user_agent resumed when memory.load() returns or raises: None is
\* returned when it raised, when the agent type is unknown or when the
\* constructor raises; otherwise the new agent is cached and returned.
memory_load_done(t, raised, homeowner_raises) ==
    /\ callers[t].pc = "load_memory"
    /\ IF raised THEN returns_none(t, "exception")
       ELSE IF callers[t].agent_type \notin {"homeowner", "contractor"}
       THEN returns_none(t, "unknown agent type")
       ELSE IF constructor_raises(callers[t].agent_type, homeowner_raises)
       THEN returns_none(t, "exception")
       ELSE /\ agents' = Append(agents,
                                [id |-> user_agent_id(callers[t].agent_type,
                                                      callers[t].user_id),
                                 cache_key |-> key_of(t)])
            /\ _agent_cache' = Put(_agent_cache, key_of(t), ref(Len(agents) + 1))
            /\ callers' = returns(t, ref(Len(agents) + 1), "none")
            /\ _agent_creation_locks' = released(_agent_creation_locks, key_of(t))
    /\ UNCHANGED <<gate_vars, bids, singleton_vars, bid_call>>

\* The caller lets go of what get_user_agent returned.
drop_agent(t) ==
    /\ callers[t].pc = "returned"
    /\ callers' = [callers EXCEPT ![t] = NotCalling]
    /\ UNCHANGED <<gate_vars, bids, _agent_cache, _agent_creation_locks, agents,
                   singleton_vars, bid_call>>

\* The WeakValueDictionary loses the entry of an agent that nothing refers
\* to any more, at once or when the collector runs.
weak_entry_dies(key) ==
    /\ key \in DOMAIN _agent_cache
    /\ Holding(_agent_cache[key]) = {}
    /\ _agent_cache' = Remove(_agent_cache, key)
    /\ UNCHANGED <<gate_vars, bids, _agent_creation_locks, callers, agents,
                   singleton_vars, bid_call>>

\* The keys the factory is called with.
CacheKeys == {cache_key(u, a) : u \in UserIds, a \in AgentTypes}

\* Tasks calling get_user_agent concurrently.
NextFactory ==
    \/ \E t \in Callers, u \in UserIds, a \in AgentTypes : get_user_agent(t, u, a)
    \/ \E t \in Callers : lock_acquired(t)
    \/ \E t \in Callers, raised \in BOOLEAN : user_query_done(t, raised)
    \/ \E t \in Callers, raised \in BOOLEAN, homeowner_raises \in BOOLEAN :
           memory_load_done(t, raised, homeowner_raises)
    \/ \E t \in Callers : drop_agent(t)
    \/ \E key \in CacheKeys : weak_entry_dies(key)

SpecFactory == Init /\ [][NextFactory]_vars

\* --------------------------------------------- instabids/agents/factory.py

\* The memory arguments of the factory calls: the default None, or one of
\* two PersistentMemory objects.
Memories == {NONE, "memory1", "memory2"}

\* Agent(name="HomeownerAgent", tools=.., system_prompt=.., memory=memory)
homeowner_agent(memory) == [name |-> "HomeownerAgent", memory |-> memory]

\* create_contractor_agent(memory): a new contractor agent with the memory.
create_contractor_agent(memory) == [name |-> "ContractorAgent", memory |-> memory]

\* The entry of factory_calls for a call and the agent it returned.
factory_call(fn, memory, agent) == [fn |-> fn, memory |-> memory, returned |-> agent]

\* get_homeowner_agent constructing a new agent whenever a memory is
\* given: the fault C28 is checked against.
get_homeowner_agent_memory_injection(memory) ==
    /\ Len(factory_calls) < MaxCalls
    /\ IF _homeowner = NoAgent \/ memory # NONE
       THEN /\ adk_agents' = Append(adk_agents, homeowner_agent(memory))
            /\ _homeowner' = ref(Len(adk_agents) + 1)
       ELSE UNCHANGED <<adk_agents, _homeowner>>
    /\ factory_calls' = Append(factory_calls,
                               factory_call("get_homeowner_agent", memory, _homeowner'))
    /\ UNCHANGED <<gate_vars, bids, factory_vars, _contractor, bid_call>>

\* get_homeowner_agent(memory): the agent is constructed when the global is
\* None, and the global is returned.
get_homeowner_agent(memory) ==
    /\ Len(factory_calls) < MaxCalls
    /\ IF _homeowner = NoAgent
       THEN /\ adk_agents' = Append(adk_agents, homeowner_agent(memory))
            /\ _homeowner' = ref(Len(adk_agents) + 1)
       ELSE UNCHANGED <<adk_agents, _homeowner>>
    /\ factory_calls' = Append(factory_calls,
                               factory_call("get_homeowner_agent", memory, _homeowner'))
    /\ UNCHANGED <<gate_vars, bids, factory_vars, _contractor, bid_call>>

\* get_contractor_agent without `or memory is not None`: the fault C29 is
\* checked against.
get_contractor_agent_singleton(memory) ==
    /\ Len(factory_calls) < MaxCalls
    /\ IF _contractor = NoAgent
       THEN /\ adk_agents' = Append(adk_agents, create_contractor_agent(memory))
            /\ _contractor' = ref(Len(adk_agents) + 1)
       ELSE UNCHANGED <<adk_agents, _contractor>>
    /\ factory_calls' = Append(factory_calls,
                               factory_call("get_contractor_agent", memory, _contractor'))
    /\ UNCHANGED <<gate_vars, bids, factory_vars, _homeowner, bid_call>>

\* get_contractor_agent(memory): the agent is created when the global is
\* None or a memory is given, and the global is returned.
get_contractor_agent(memory) ==
    /\ Len(factory_calls) < MaxCalls
    /\ IF _contractor = NoAgent \/ memory # NONE
       THEN /\ adk_agents' = Append(adk_agents, create_contractor_agent(memory))
            /\ _contractor' = ref(Len(adk_agents) + 1)
       ELSE UNCHANGED <<adk_agents, _contractor>>
    /\ factory_calls' = Append(factory_calls,
                               factory_call("get_contractor_agent", memory, _contractor'))
    /\ UNCHANGED <<gate_vars, bids, factory_vars, _homeowner, bid_call>>

\* The calls of the singleton factory, in any order.
NextSingleton ==
    \/ \E memory \in Memories : get_homeowner_agent(memory)
    \/ \E memory \in Memories : get_contractor_agent(memory)

SpecSingleton == Init /\ [][NextSingleton]_vars

\* ------------------------------------------------- agents/homeowner/agent.py

\* self.project_creation_flow of an agent constructed with an LLM service.
project_creation_flow == "LLMFlow"

\* "upload quote"
UPLOAD_QUOTE == <<"u", "p", "l", "o", "a", "d", " ", "q", "u", "o", "t", "e">>

\* any(getattr(a, 'type', None) == type for a in task.artifacts)
any_artifact(artifacts, type) == \E i \in 1..Len(artifacts) : artifacts[i] = type

\* _determine_initial_input(task)
determine_initial_input(t) ==
    IF Len(t.artifacts) > 0 /\ any_artifact(t.artifacts, "IMAGE") THEN "photo"
    ELSE IF Len(t.artifacts) > 0 /\ any_artifact(t.artifacts, "FILE") THEN "quote"
    ELSE IF Len(t.description) > 0 /\ Contains(UPLOAD_QUOTE, Lower(t.description))
    THEN "quote"
    ELSE "describe"

\* task.metadata.get("homeowner_user_id") if task.metadata else None, and
\* the placeholder str(uuid.uuid4()) when that is falsy.
homeowner_id_of(t) ==
    IF "homeowner_user_id" \in DOMAIN t.metadata /\ Truthy(t.metadata.homeowner_user_id)
    THEN t.metadata.homeowner_user_id
    ELSE "uuid4"

\* The locals of a call of HomeownerAgent that has just started.
homeowner_call(op, task_id, t, final_data) ==
    [pc |-> "idle", op |-> op, task_id |-> task_id, task |-> t,
     input |-> "none", homeowner_id |-> NONE, analysis |-> "none",
     status |-> "none", error_message |-> NONE, then |-> "none",
     final_data |-> final_data, project_id |-> NONE, saved |-> FALSE,
     triggered |-> FALSE, flow_ran |-> FALSE, error |-> "none"]

\* The call left by an exception nothing catches.
raises(call, error) == [call EXCEPT !.pc = "raised", !.error = error]

\* _initiate_chat_flow(task_id, initial_context, user_agent_id): its first
\* statement formats `task.id`, and the method has no name `task` (its
\* parameter is task_id): NameError, before the flow is looked at and
\* outside the method's try.
initiate_chat_flow(call) == raises(call, "NameError")

\* handle_create_task from its third statement: the input is classified
\* and the context made; a photo or a quote is analysed (awaited), a
\* description needs no analysis and the chat flow is initiated.
analyze_initial_input(call) ==
    LET initial_input_type == determine_initial_input(call.task)
        started == [call EXCEPT !.input = initial_input_type,
                                !.homeowner_id = homeowner_id_of(call.task)]
    IN  IF initial_input_type \in {"photo", "quote"}
        THEN [started EXCEPT !.pc = "analysis"]
        ELSE initiate_chat_flow([started EXCEPT !.analysis = "ok"])

\* What every step of HomeownerAgent leaves alone.
homeowner_frame ==
    UNCHANGED <<db, not_homeowner_vars, _active_flow_sessions, prompts>>

\* HomeownerAgent.handle_create_task(task) up to its first suspension.
\* Without a client _store_initial_task and _update_task_status log and
\* return; with one the insert of the task is awaited.
homeowner_handle_create_task(t) ==
    /\ hcall.pc = "idle"
    /\ LET call == homeowner_call("handle_create_task", t.id, t, FinalData(TRUE, {}, NONE))
       IN  IF db = NONE
           THEN /\ logged_status' = [logged_status EXCEPT ![t.id] = "IN_PROGRESS"]
                /\ hcall' = analyze_initial_input(call)
           ELSE /\ hcall' = [call EXCEPT !.pc = "store"]
                /\ UNCHANGED logged_status
    /\ UNCHANGED tasks_table
    /\ homeowner_frame

\* _store_initial_task resumed: the row is stored, or the insert raised
\* (always when the task is stored already) and the error is logged; then
\* _update_task_status(task.id, "IN_PROGRESS") logs and awaits its update.
store_initial_task_done(raised) ==
    /\ hcall.pc = "store"
    /\ tasks_table[hcall.task_id] # NoRow => raised
    /\ tasks_table' =
          IF raised THEN tasks_table
          ELSE [tasks_table EXCEPT ![hcall.task_id] =
                   [status |-> hcall.task.status, error_message |-> NONE]]
    /\ logged_status' = [logged_status EXCEPT ![hcall.task_id] = "IN_PROGRESS"]
    /\ hcall' = [hcall EXCEPT !.pc = "update", !.status = "IN_PROGRESS",
                              !.then = "analyze"]
    /\ homeowner_frame

\* _update_task_status resumed: the row of the task, if there is one, has
\* the new status unless the update raised (logged); the caller goes on.
update_task_status_done(raised) ==
    /\ hcall.pc = "update"
    /\ tasks_table' =
          IF raised \/ tasks_table[hcall.task_id] = NoRow THEN tasks_table
          ELSE [tasks_table EXCEPT ![hcall.task_id] =
                   [status |-> hcall.status, error_message |-> hcall.error_message]]
    /\ hcall' = IF hcall.then = "analyze" THEN analyze_initial_input(hcall)
                ELSE [hcall EXCEPT !.pc = "returned"]
    /\ UNCHANGED logged_status
    /\ homeowner_frame

\* handle_create_task resumed when analyze_photo or analyze_quote returns
\* or raises: the task is set to FAILED and the handler returns, or the
\* chat flow is initiated.
analysis_done(raised) ==
    /\ hcall.pc = "analysis"
    /\ IF raised
       THEN /\ logged_status' = [logged_status EXCEPT ![hcall.task_id] = "FAILED"]
            /\ hcall' = [hcall EXCEPT
                            !.analysis = "raised",
                            !.status = "FAILED",
                            !.error_message = "Initial analysis failed",
                            !.then = "return",
                            !.pc = IF db = NONE THEN "returned" ELSE "update"]
       ELSE /\ hcall' = initiate_chat_flow([hcall EXCEPT !.analysis = "ok"])
            /\ UNCHANGED logged_status
    /\ UNCHANGED tasks_table
    /\ homeowner_frame

\* homeowner_handle_message setting the task to FAILED when it has no
\* session: the fault C35 is checked against.
homeowner_handle_message_fails_task(m) ==
    /\ hcall.pc = "idle"
    /\ LET call == homeowner_call("handle_message", m.task_id, NoTask,
                                  FinalData(TRUE, {}, NONE))
       IN  IF /\ m.task_id \in DOMAIN _active_flow_sessions
              /\ project_creation_flow # NONE
           THEN /\ hcall' = [call EXCEPT !.pc = "flow_run"]
                /\ UNCHANGED logged_status
           ELSE /\ hcall' = [call EXCEPT !.pc = "returned"]
                /\ logged_status' = [logged_status EXCEPT ![m.task_id] = "FAILED"]
    /\ UNCHANGED tasks_table
    /\ homeowner_frame

\* HomeownerAgent.handle_message(message) up to its first suspension: with
\* a session of the task and a flow the next turn of the flow is awaited;
\* otherwise a warning is logged.
homeowner_handle_message(m) ==
    /\ hcall.pc = "idle"
    /\ LET call == homeowner_call("handle_message", m.task_id, NoTask,
                                  FinalData(TRUE, {}, NONE))
       IN  hcall' = IF /\ m.task_id \in DOMAIN _active_flow_sessions
                       /\ project_creation_flow # NONE
                    THEN [call EXCEPT !.pc = "flow_run"]
                    ELSE [call EXCEPT !.pc = "returned"]
    /\ UNCHANGED <<tasks_table, logged_status>>
    /\ homeowner_frame

\* `if final_data:` and the test of its homeowner_id.
missing_final_data(final_data) == final_data.is_none \/ final_data.keys = {}

missing_homeowner_id(final_data) ==
    "homeowner_id" \notin final_data.keys \/ ~Truthy(final_data.homeowner_id)

\* _finalize_project_creation(task_id, final_data) up to its first
\* suspension.  The log lines of both failure branches format `task.id`,
\* which the method has no name for: NameError before _update_task_status.
finalize_project_creation(task_id, final_data) ==
    /\ hcall.pc = "idle"
    /\ LET call == homeowner_call("_finalize_project_creation", task_id, NoTask,
                                  final_data)
       IN  hcall' = IF missing_final_data(final_data) THEN raises(call, "NameError")
                    ELSE IF missing_homeowner_id(final_data)
                    THEN raises(call, "NameError")
                    ELSE [call EXCEPT !.pc = "save"]
    /\ UNCHANGED <<tasks_table, logged_status>>
    /\ homeowner_frame

\* homeowner_utils.save_project_to_db(self.db, final_data): the id of the
\* saved project, None when nothing was saved, or an exception.
SaveResults == {"P100", NONE, "raises"}

\* _finalize_project_creation resumed when save_project_to_db returns or
\* raises.  The log lines after the save format `task.id` too: NameError
\* before the bid card is triggered and before _update_task_status.
save_project_done(result) ==
    /\ hcall.pc = "save"
    /\ db = NONE => result # "P100"
    /\ hcall' = IF result = "raises" THEN raises(hcall, "Exception")
                ELSE raises([hcall EXCEPT !.project_id = result,
                                          !.saved = (result # NONE)],
                            "NameError")
    /\ UNCHANGED <<tasks_table, logged_status>>
    /\ homeowner_frame

\* The caller has the outcome; the agent is ready for the next call.
homeowner_return ==
    /\ hcall.pc \in {"returned", "raised"}
    /\ hcall' = NoHomeownerCall
    /\ UNCHANGED <<tasks_table, logged_status>>
    /\ homeowner_frame

\* The homeowner agent given tasks and messages, and its finalisation
\* called.
NextHomeowner ==
    \/ \E t \in HomeownerTasks : homeowner_handle_create_task(t)
    \/ \E raised \in BOOLEAN : store_initial_task_done(raised)
    \/ \E raised \in BOOLEAN : update_task_status_done(raised)
    \/ \E raised \in BOOLEAN : analysis_done(raised)
    \/ \E m \in HomeownerMessages : homeowner_handle_message(m)
    \/ \E id \in TaskIds, final_data \in FinalDatas :
           finalize_project_creation(id, final_data)
    \/ \E result \in SaveResults : save_project_done(result)
    \/ homeowner_return

SpecHomeowner == Init /\ [][NextHomeowner]_vars

\* ----------------------------------------------------- the pipeline's claims

\* The terminal state an outcome of handle_message stands for.
TerminalState(o) ==
    IF o = "delivered" THEN "DELIVERED"
    ELSE IF o = "blocked" THEN "BLOCKED"
    ELSE IF o \in {"dropped", "unresolved", "failed"} THEN "ERRORED"
    ELSE "NONE"

\* A message in hand is in a terminal state exactly when its handling is
\* done; it is delivered or failed only after an allowing verdict and one
\* transport call, blocked only after a denying verdict and no call.
C21_Stages ==
    /\ Len(sends) <= 1
    /\ pc = "done" <=> TerminalState(outcome) # "NONE"
    /\ pc = "send" => (verdict.allowed /\ Len(sends) = 1)
    /\ outcome \in {"delivered", "failed"} => (verdict.allowed /\ Len(sends) = 1)
    /\ outcome \in {"blocked", "dropped", "unresolved"} => sends = << >>
    /\ outcome = "blocked" => ~verdict.allowed

\* C21: every message handled reaches one terminal state, which then stays
\* as it is until the handler returns, after at most one transport call,
\* made only after the verdict allowed the message.
C21_OneTerminalStateNoRetry ==
    /\ []C21_Stages
    /\ [][(pc = "done" /\ pc' # "idle") =>
              (pc' = "done" /\ outcome' = outcome /\ sends' = sends)]_vars
    /\ (pc # "idle") ~> (pc = "done")

\* C21 witness: the one transport call of a message failed or raised and
\* the message ended errored with that single call made.
C21_Witness ==
    /\ pc = "done" /\ outcome = "failed"
    /\ TerminalState(outcome) = "ERRORED"
    /\ Len(sends) = 1

\* C22: a message that was allowed and whose recipient the lookup does not
\* resolve ends unresolved, with no transport call made for it; and a
\* message ends unresolved only so.
C22_UnresolvedRecipientNotSent ==
    /\ (pc # "idle" /\ verdict.allowed
           /\ ~found(get_recipient_agent_info(message.recipient_agent_id)))
          => (pc = "done" /\ outcome = "unresolved" /\ sends = << >>)
    /\ outcome = "unresolved"
          => /\ verdict.allowed
             /\ ~found(get_recipient_agent_info(message.recipient_agent_id))

\* C22 witness: a message allowed because of an accepted bid ended
\* unresolved, nothing sent.
C22_Witness ==
    /\ pc = "done" /\ outcome = "unresolved" /\ sends = << >>
    /\ verdict = Verdict(TRUE, "Allowed: Bid accepted")

\* No local of handle_message or of handle_create_task outlives its call.
NoResidue ==
    /\ pc = "idle" =>
           /\ message = NoMessage /\ verdict = NoVerdict /\ sends = << >>
           /\ ~queried /\ ~query_raised /\ outcome = "none"
    /\ bpc = "idle" =>
           /\ task = NoTask /\ recipients = << >> /\ fanout = << >>
           /\ boutcome = "none" /\ returned = NotReturned

\* C23: no step of handle_message or handle_create_task changes the
\* agent's client, the environment or the bids table, and nothing of a
\* finished unit of work is left when the next one starts.
C23_Stateless ==
    /\ []NoResidue
    /\ [][(pc' # pc \/ bpc' # bpc) =>
              (db' = db /\ environ' = environ /\ bids' = bids)]_vars

\* C23 witness: a message was delivered and the agent is as it was built,
\* with its client, between two units of work of the broadcast entry point.
C23_Witness ==
    /\ pc = "done" /\ outcome = "delivered"
    /\ db = "client" /\ bpc = "idle" /\ task = NoTask

\* ---------------------------------------------------- the factories' claims

\* A finished submit_bid returned True exactly when its insert returned a
\* row, and False when the insert returned no row, raised or was not called;
\* the table has one row more in the first case and its rows otherwise.
C30_Result ==
    bid_call.pc = "done" =>
        /\ bid_call.result = "True" <=> bid_call.insert = "row"
        /\ bid_call.result = "False" <=>
               bid_call.insert \in {"no row", "raises", "not called"}
        /\ Len(bids) = bid_call.rows_before
                          + (IF bid_call.result = "True" THEN 1 ELSE 0)

\* C30: submit_bid returns True exactly when the insert returned a row and
\* False otherwise, and the row that insert saved is the bid of the call
\* with status pending.
C30_SubmitBid ==
    /\ []C30_Result
    /\ [][(bid_call.pc = "insert" /\ bid_call'.result = "True")
            => bids' = Append(bids,
                              [project_id |-> bid_call.bid_data.project_id,
                               contractor_id |-> bid_call.bid_data.contractor_id,
                               status |-> "pending"])]_vars

\* C30 witness: a bid of amount zero was inserted as pending and True was
\* returned.
C30_Witness ==
    /\ bid_call.pc = "done" /\ bid_call.result = "True"
    /\ bid_call.bid_data.amount = "0.0"
    /\ bids[Len(bids)].status = "pending"

\* The positions in factory_calls of the calls of fn.
CallsOf(fn) == {i \in 1..Len(factory_calls) : factory_calls[i].fn = fn}

\* The agents constructed with the name `name`.
AgentsNamed(name) == {i \in 1..Len(adk_agents) : adk_agents[i].name = name}

\* C28: at most one homeowner agent is ever constructed, every call of
\* get_homeowner_agent returned it, and it has the memory of the first call
\* whatever memory later calls passed.
C28_HomeownerSingleton ==
    /\ Cardinality(AgentsNamed("HomeownerAgent")) <= 1
    /\ \A i \in CallsOf("get_homeowner_agent") :
          /\ factory_calls[i].returned = _homeowner
          /\ factory_calls[i].returned # NoAgent
          /\ factory_calls[i].returned.agent \in AgentsNamed("HomeownerAgent")
          /\ \A j \in CallsOf("get_homeowner_agent") :
                (\A k \in CallsOf("get_homeowner_agent") : j <= k)
                    => adk_agents[factory_calls[i].returned.agent].memory
                         = factory_calls[j].memory

\* C28 witness: a call without memory was followed by a call passing a
\* memory, and both returned the same agent.
C28_Witness ==
    \E i, j \in CallsOf("get_homeowner_agent") :
        /\ i < j
        /\ factory_calls[i].memory = NONE
        /\ factory_calls[j].memory = "memory1"
        /\ factory_calls[i].returned = factory_calls[j].returned

Returned(key) ==
    {t \in Callers : /\ callers[t].pc = "returned"
                     /\ callers[t].result # NoAgent
                     /\ key_of(t) = key}

\* The tasks that are creating the agent of `key` under its lock.
Creating(key) ==
    {t \in Calling : callers[t].pc \in {"query_user", "load_memory"} /\ key_of(t) = key}

\* The agents of `key` that are alive: cached, or held by a caller.
Alive(key) ==
    {n \in 1..Len(agents) :
        /\ agents[n].cache_key = key
        /\ \/ key \in DOMAIN _agent_cache /\ _agent_cache[key] = ref(n)
           \/ Holding(ref(n)) # {}}

\* C26: concurrent calls of get_user_agent with the same user and agent
\* type never hold two agents: at most one task creates the agent of a key
\* at a time, at most one agent of a key is alive, it is the one of that
\* key in the cache, and every call that returned an agent of the key
\* returned that one.
C26_OneAgentPerKey ==
    \A key \in CacheKeys :
        /\ Cardinality(Creating(key)) <= 1
        /\ Cardinality(Alive(key)) <= 1
        /\ \A t \in Returned(key) :
              /\ key \in DOMAIN _agent_cache
              /\ callers[t].result = _agent_cache[key]
              /\ agents[callers[t].result.agent].cache_key = key

\* Two concurrent calls returned the same agent, one of them after waiting
\* for the lock while the other created it.
C26_Witness ==
    /\ callers["t1"].pc = "returned" /\ callers["t2"].pc = "returned"
    /\ key_of("t1") = key_of("t2")
    /\ callers["t1"].result # NoAgent
    /\ callers["t1"].result = callers["t2"].result
    /\ ~callers["t1"].waited /\ callers["t2"].waited

\* The calls that returned None, and the reason each has.
C27_Failures ==
    \A t \in Callers : callers[t].pc = "returned" =>
        /\ (callers[t].result = NoAgent) <=> (callers[t].failure # "none")
        /\ callers[t].failure = "user not found" => callers[t].user_id \notin UsersTable
        /\ callers[t].failure = "unknown agent type" =>
              callers[t].agent_type \notin {"homeowner", "contractor"}
        /\ callers[t].user_id \notin UsersTable => callers[t].result = NoAgent
        /\ callers[t].agent_type \notin {"homeowner", "contractor"} =>
              callers[t].result = NoAgent

\* No lock is held by a task that is not inside get_user_agent.
C27_LockReleased ==
    \A key \in DOMAIN _agent_creation_locks :
        LET holder == _agent_creation_locks[key].holder
        IN  holder # NONE => (holder \in Calling /\ key_of(holder) = key)

\* C27: when the user is not found, the agent type is unknown or an
\* exception is raised during creation, get_user_agent returns None, caches
\* nothing and releases the lock, so that a later call with the same key
\* attempts creation again.
C27_FailureCachesNothing ==
    /\ [](C27_Failures /\ C27_LockReleased)
    /\ [][\A t \in Callers :
            (callers[t].pc \in {"query_user", "load_memory"}
               /\ callers'[t].pc = "returned" /\ callers'[t].result = NoAgent)
            => /\ _agent_cache' = _agent_cache
               /\ agents' = agents
               /\ cache_key(callers'[t].user_id, callers'[t].agent_type)
                     \notin DOMAIN _agent_cache'
               /\ _agent_creation_locks'[cache_key(callers'[t].user_id,
                                                   callers'[t].agent_type)].holder # t]_vars

\* A call returned None because the user was not found, and a later call
\* with the same key is creating the agent again under the lock.
C27_Witness ==
    /\ callers["t1"].pc = "returned"
    /\ callers["t1"].failure = "user not found"
    /\ callers["t2"].pc = "query_user"
    /\ ~callers["t2"].waited
    /\ key_of("t2") = key_of("t1")
    /\ _agent_creation_locks[key_of("t2")].holder = "t2"


\* ------------------------------------------ the broadcast's entry and loop

\* The delivery attempts of the broadcast in hand.
Attempts == {i \in 1..Len(fanout) : fanout[i].call # NoCall}

\* The task names a broadcast with everything _handle_broadcast needs.
CompleteBroadcast(t) ==
    /\ t # NoTask
    /\ t.metadata # NoMetadata
    /\ t.metadata.action = "broadcast"
    /\ t.metadata.project_id # ""
    /\ t.metadata.content # EMPTY
    /\ t.creator_agent_id # EMPTY

\* The rows of the bids table on the project.
ProjectBids(table, project_id) ==
    {j \in 1..Len(table) : table[j].project_id = project_id}

\* C36: handle_create_task queries the bids and hands messages to the
\* transport only for a task whose metadata has action "broadcast" with
\* project_id, content and creator agent id present; any other task ends
\* with no query and no send, and a query that finds no bid record of the
\* project ends the broadcast with no send.
C36_BroadcastOnlyWhenComplete ==
    /\ [](bpc # "idle" =>
            /\ (bpc = "query" \/ recipients # << >> \/ Attempts # {})
                  => CompleteBroadcast(task)
            /\ ~CompleteBroadcast(task)
                  => /\ bpc = "done"
                     /\ boutcome \in {"not implemented", "missing data"}
                     /\ fanout = << >>)
    /\ [][(BroadcastQueryReturns /\ ProjectBids(bids, task.metadata.project_id) = {})
            => /\ bpc' = "done"
               /\ boutcome' \in {"no bidders", "error"}
               /\ fanout' = << >> /\ recipients' = << >>]_vars

\* C36 witness: a broadcast task without content ended with nothing sent
\* although its project has a bid of a contractor whose agent has an endpoint.
C36_Witness ==
    /\ bpc = "done" /\ boutcome = "missing data"
    /\ task.metadata.action = "broadcast"
    /\ task.metadata.content = EMPTY
    /\ task.creator_agent_id # EMPTY
    /\ ProjectBids(bids, task.metadata.project_id) # {}
    /\ fanout = << >>

\* C37: within one broadcast no contractor is visited twice, so each
\* contractor has at most one delivery attempt, however many bid records it
\* has on the project.
C37_OneAttemptPerContractor ==
    /\ \A i, j \in 1..Len(recipients) : i # j => recipients[i] # recipients[j]
    /\ \A i, j \in 1..Len(fanout) :
          i # j => fanout[i].recipient_user_id # fanout[j].recipient_user_id
    /\ \A c \in ContractorIds :
          Cardinality({i \in Attempts : fanout[i].recipient_user_id = c}) <= 1

\* C37 witness: a broadcast ended with one delivery attempt for a
\* contractor that has two bid records on the project.
C37_Witness ==
    /\ bpc = "done" /\ boutcome = "completed"
    /\ Cardinality(Attempts) = 1
    /\ \E i \in Attempts :
          Cardinality({j \in ProjectBids(bids, task.metadata.project_id) :
                          bids[j].contractor_id = fanout[i].recipient_user_id}) = 2

\* ------------------------------------------------ direction of the message

\* C38: when the query returns and the pair has an accepted or pending
\* bid, the verdict and its reason are those the message of the opposite
\* direction (sender and recipient exchanged) gets on the same bids.
C38_DirectionIndependent ==
    [][(QueryReturns /\ ~query_raised'
          /\ PairBidStatuses(bids, message) \cap {"accepted", "pending"} # {})
        => verdict' = DirectVerdict(bids, project_id_of(message),
                                    message.recipient_agent_id,
                                    message.sender_agent_id)]_vars

\* C38 witness: a homeowner's message was allowed on the pair's pending
\* bid, as the contractor's message on the same bids would be, while with
\* no bid of the pair the two directions would differ.
C38_Witness ==
    /\ pc = "done" /\ queried /\ ~query_raised
    /\ ~is_contractor(message.sender_agent_id)
    /\ PairBidStatuses(bids, message) = {"pending"}
    /\ verdict = Verdict(TRUE, "Allowed: Bid pending (redaction may apply)")
    /\ verdict = DirectVerdict(bids, project_id_of(message),
                               message.recipient_agent_id, message.sender_agent_id)
    /\ DirectVerdict(<< >>, project_id_of(message), message.sender_agent_id,
                     message.recipient_agent_id)
         # DirectVerdict(<< >>, project_id_of(message), message.recipient_agent_id,
                         message.sender_agent_id)


\* -------------------------------------------------- the homeowner's claims

\* A call of HomeownerAgent's `op` has ended, by return or by exception.
Ended(op) == hcall.pc \in {"returned", "raised"} /\ hcall.op = op

\* C31: when _finalize_project_creation has ended and the save did not
\* raise: with a homeowner id in the final data and a project id from the
\* save, the bid card was triggered and the task is COMPLETED; without
\* final data, without homeowner id or without project id the task is
\* FAILED, and in the first two cases nothing was saved.
C31_FinalizeProjectCreation ==
    (Ended("_finalize_project_creation") /\ hcall.error # "Exception") =>
        LET no_data == missing_final_data(hcall.final_data)
            no_id == ~no_data /\ missing_homeowner_id(hcall.final_data)
            status == logged_status[hcall.task_id]
        IN  IF no_data \/ no_id
            THEN status = "FAILED" /\ ~hcall.saved
            ELSE IF hcall.project_id = NONE
            THEN status = "FAILED"
            ELSE hcall.saved /\ hcall.triggered /\ status = "COMPLETED"

\* C32: when handle_create_task has ended for a task whose initial
\* analysis succeeded, the task has an active flow session and a prompt was
\* sent for it, or its status is COMPLETED or FAILED.
C32_FlowStartedOrTaskEnded ==
    (Ended("handle_create_task") /\ hcall.analysis = "ok") =>
        \/ /\ hcall.task_id \in DOMAIN _active_flow_sessions
           /\ \E i \in 1..Len(prompts) : prompts[i].task_id = hcall.task_id
        \/ logged_status[hcall.task_id] \in {"COMPLETED", "FAILED"}

\* C35: the step in which handle_message is given a message of a task
\* that has no active flow session ends the call with no turn of the flow
\* run, and leaves the prompts sent, the session map, the statuses logged
\* and the tasks table as they were.
C35_NoSessionNoEffect ==
    [][(/\ hcall.pc = "idle" /\ hcall'.pc # "idle"
        /\ hcall'.op = "handle_message"
        /\ hcall'.task_id \notin DOMAIN _active_flow_sessions)
        => /\ hcall'.pc = "returned"
           /\ ~hcall'.flow_ran
           /\ hcall'.error = "none"
           /\ prompts' = prompts
           /\ _active_flow_sessions' = _active_flow_sessions
           /\ logged_status' = logged_status
           /\ tasks_table' = tasks_table]_vars

\* C35 witness: a message of a task that handle_create_task stored and set
\* IN_PROGRESS, and that has no session, was handled and nothing changed.
C35_Witness ==
    /\ Ended("handle_message") /\ hcall.pc = "returned"
    /\ hcall.task_id \notin DOMAIN _active_flow_sessions
    /\ tasks_table[hcall.task_id].status = "IN_PROGRESS"
    /\ logged_status[hcall.task_id] = "IN_PROGRESS"
    /\ prompts = << >>

====
